---- MODULE Spec2Model ----
(***************************************************************************)
(* A model of package baconv: decimal text to IEEE-754 binary floating     *)
(* point (Batof32, Batof64, ParseFloat) and decimal text to integers       *)
(* (ParseUint, ParseInt, Batoi).                                           *)
(*                                                                         *)
(* A byte slice is a sequence of one-character strings.  A uint64 is a     *)
(* triple of limbs <<l0, l1, l2>> standing for l0 + l1*2^24 + l2*2^48,     *)
(* with l2 < 2^16, so that arithmetic wraps at 2^64 as it does in Go.      *)
(* A float is its IEEE-754 bit pattern, held in such a uint64.             *)
(***************************************************************************)
EXTENDS Integers, Sequences, FiniteSets, TLC

(***************************************************************************)
(* Bytes.                                                                  *)
(***************************************************************************)
Bytes(s) == [i \in 1..Len(s) |-> SubSeq(s, i, i)]

DigitChars == <<"0", "1", "2", "3", "4", "5", "6", "7", "8", "9">>

LowerChars == <<"a", "b", "c", "d", "e", "f", "g", "h", "i", "j", "k", "l", "m",
                "n", "o", "p", "q", "r", "s", "t", "u", "v", "w", "x", "y", "z">>

UpperChars == <<"A", "B", "C", "D", "E", "F", "G", "H", "I", "J", "K", "L", "M",
                "N", "O", "P", "Q", "R", "S", "T", "U", "V", "W", "X", "Y", "Z">>

IndexIn(c, chars) == CHOOSE k \in 1..Len(chars) : chars[k] = c

IsIn(c, chars) == \E k \in 1..Len(chars) : chars[k] = c

\* '0' <= c && c <= '9'
IsDigit(c) == IsIn(c, DigitChars)

\* c - '0' for a decimal digit c
DigitVal(c) == IndexIn(c, DigitChars) - 1

\* The simple case folding bytes.EqualFold applies to an ASCII byte.
ToLower(c) == IF IsIn(c, UpperChars) THEN LowerChars[IndexIn(c, UpperChars)] ELSE c

\* bytes.Equal: a comparison that folds no case.
EqualExact(s, t) == s = t

EqualFold(s, t) ==
  /\ Len(s) = Len(t)
  /\ \A k \in 1..Len(s) : ToLower(s[k]) = ToLower(t[k])

(***************************************************************************)
(* Loops.  The body of a loop of the code is an operator XStep on the      *)
(* loop's state st, and the loop is XLoop(st, n): XStep is applied until   *)
(* st.done, at most n times.  The iterations are split in halves so that   *)
(* the depth of the evaluation grows with log n.                           *)
(***************************************************************************)

(***************************************************************************)
(* uint64.                                                                 *)
(***************************************************************************)
LimbBits == 24
LimbBase == 2 ^ LimbBits
TopBase == 2 ^ (64 - 2 * LimbBits)

U64Zero == <<0, 0, 0>>

\* n is a natural number below 2^31
U64(n) == <<n % LimbBase, n \div LimbBase, 0>>

U64IsZero(u) == u = U64Zero

\* u*m + a, with m <= 100 and a < 2^24 (mod 2^64)
U64MulAdd(u, m, a) ==
  LET t0 == u[1] * m + a
      t1 == u[2] * m + t0 \div LimbBase
      t2 == u[3] * m + t1 \div LimbBase
  IN  <<t0 % LimbBase, t1 % LimbBase, t2 % TopBase>>

U64Add(u, v) ==
  LET t0 == u[1] + v[1]
      t1 == u[2] + v[2] + t0 \div LimbBase
      t2 == u[3] + v[3] + t1 \div LimbBase
  IN  <<t0 % LimbBase, t1 % LimbBase, t2 % TopBase>>

\* u - v (mod 2^64)
U64Sub(u, v) ==
  LET t0 == u[1] - v[1]
      t1 == u[2] - v[2] + t0 \div LimbBase
      t2 == u[3] - v[3] + t1 \div LimbBase
  IN  <<t0 % LimbBase, t1 % LimbBase, t2 % TopBase>>

U64Less(u, v) ==
  \/ u[3] < v[3]
  \/ u[3] = v[3] /\ u[2] < v[2]
  \/ u[3] = v[3] /\ u[2] = v[2] /\ u[1] < v[1]

U64LessEq(u, v) == ~U64Less(v, u)

U64Limb(u, q) == IF q \in 1..3 THEN u[q] ELSE 0

\* The n bits (n <= 24) of u from bit lo up, as a number; bits below 0 and
\* above 63 are zero.
U64Field(u, lo, n) ==
  IF lo + n <= 0 \/ lo >= 64 THEN 0
  ELSE IF lo < 0 THEN
    (U64Limb(u, 1) % (2 ^ (n + lo))) * (2 ^ (0 - lo))
  ELSE
    LET q == lo \div LimbBits
        r == lo % LimbBits
        low == U64Limb(u, q + 1) \div (2 ^ r)
        high == (U64Limb(u, q + 2) % (2 ^ r)) * (2 ^ (LimbBits - r))
    IN  (low + high) % (2 ^ n)

\* u >> k
U64Shr(u, k) == <<U64Field(u, k, 24), U64Field(u, k + 24, 24), U64Field(u, k + 48, 16)>>

\* u << k
U64Shl(u, k) == <<U64Field(u, 0 - k, 24), U64Field(u, 24 - k, 24), U64Field(u, 48 - k, 16)>>

\* u & (1<<k - 1)
U64LowBits(u, k) == U64Sub(u, U64Shl(U64Shr(u, k), k))

\* u & (1<<k) != 0
U64Bit(u, k) == U64Field(u, k, 1) = 1

\* 1 << k
U64Pow2(k) == U64Shl(U64(1), k)

\* u | v for u and v with no bit in common
U64Or(u, v) == U64Add(u, v)

\* u / 10 and u % 10
U64Div10(u) ==
  LET q2 == u[3] \div 10
      t1 == (u[3] % 10) * LimbBase + u[2]
      q1 == t1 \div 10
      t0 == (t1 % 10) * LimbBase + u[1]
  IN  [quo |-> <<t0 \div 10, q1, q2>>, rem |-> t0 % 10]

\* The decimal digits of u, most significant first (none for 0).
RECURSIVE U64Digits(_)
U64Digits(u) ==
  IF U64IsZero(u) THEN <<>>
  ELSE LET qr == U64Div10(u) IN Append(U64Digits(qr.quo), qr.rem)

\* The uint64 a sequence of at most 19 decimal digits stands for.
RECURSIVE U64OfDigits(_, _)
U64OfDigits(ds, n) ==
  IF n = 0 THEN U64Zero ELSE U64MulAdd(U64OfDigits(ds, n - 1), 10, ds[n])

(***************************************************************************)
(* The multiprecision decimal: digits d[1..nd] (nd = Len(d)), decimal      *)
(* point dp, sign neg and the truncation flag trunc; its value is          *)
(* 0.d[1]d[2]...d[nd] * 10^dp.  The digit array holds DecimalCap digits.   *)
(***************************************************************************)
DecimalCap == 800

\* var d decimal
NewDecimal == [d |-> <<>>, dp |-> 0, neg |-> FALSE, trunc |-> FALSE]

\* A scan of the sign that passes over a '-' as over a '+'.
ScanSignUnsigned(ba) ==
  [i |-> IF ba[1] = "+" \/ ba[1] = "-" THEN 2 ELSE 1, neg |-> FALSE]

\* The sign both scanners read first; i is the index of the next byte.
ScanSign(ba) ==
  IF ba[1] = "+" THEN [i |-> 2, neg |-> FALSE]
  ELSE IF ba[1] = "-" THEN [i |-> 2, neg |-> TRUE]
  ELSE [i |-> 1, neg |-> FALSE]

\* An iteration of the digit loop that stores the zeros before the first
\* other digit.
SetDigitsStepKeepsZeros(st) ==
  LET c == st.ba[st.i]
      next == [st EXCEPT !.i = @ + 1, !.done = (st.i + 1 > Len(st.ba))]
  IN  IF c = "." THEN
        IF st.sawdot THEN [st EXCEPT !.fail = TRUE, !.done = TRUE]
        ELSE [next EXCEPT !.sawdot = TRUE, !.dp = Len(st.d)]
      ELSE IF IsDigit(c) THEN
        IF Len(st.d) < DecimalCap THEN
          [next EXCEPT !.sawdigits = TRUE, !.d = Append(@, DigitVal(c))]
        ELSE [next EXCEPT !.sawdigits = TRUE, !.trunc = (@ \/ c # "0")]
      ELSE [st EXCEPT !.done = TRUE]

\* One iteration of the digit loop of decimal.set: fail is the return inside
\* the loop, done the end of the loop (by break, return or i = len(ba)).
SetDigitsStep(st) ==
  LET c == st.ba[st.i]
      next == [st EXCEPT !.i = @ + 1, !.done = (st.i + 1 > Len(st.ba))]
  IN  IF c = "." THEN
        IF st.sawdot THEN [st EXCEPT !.fail = TRUE, !.done = TRUE]
        ELSE [next EXCEPT !.sawdot = TRUE, !.dp = Len(st.d)]
      ELSE IF IsDigit(c) THEN
        IF c = "0" /\ Len(st.d) = 0 THEN
          [next EXCEPT !.sawdigits = TRUE, !.dp = @ - 1]
        ELSE IF Len(st.d) < DecimalCap THEN
          [next EXCEPT !.sawdigits = TRUE, !.d = Append(@, DigitVal(c))]
        ELSE IF c # "0" THEN
          [next EXCEPT !.sawdigits = TRUE, !.trunc = TRUE]
        ELSE [next EXCEPT !.sawdigits = TRUE]
      ELSE [st EXCEPT !.done = TRUE]

RECURSIVE SetDigitsLoop(_, _)
SetDigitsLoop(st, n) ==
  IF n <= 0 \/ st.done THEN st
  ELSE IF n = 1 THEN SetDigitsStep(st)
  ELSE SetDigitsLoop(SetDigitsLoop(st, n \div 2), n - n \div 2)

\* One iteration of the exponent loop of decimal.set.
SetExpStep(st) ==
  LET c == st.ba[st.i]
  IN  IF IsDigit(c) THEN
        [st EXCEPT !.i = @ + 1,
                   !.e = IF @ < 10000 THEN @ * 10 + DigitVal(c) ELSE @,
                   !.done = (st.i + 1 > Len(st.ba))]
      ELSE [st EXCEPT !.done = TRUE]

RECURSIVE SetExpLoop(_, _)
SetExpLoop(st, n) ==
  IF n <= 0 \/ st.done THEN st
  ELSE IF n = 1 THEN SetExpStep(st)
  ELSE SetExpLoop(SetExpLoop(st, n \div 2), n - n \div 2)

\* A reading of the exponent that takes whatever follows the mantissa.
SetExponentAnyTail(ba, i) == [ok |-> TRUE, e |-> 0, i |-> Len(ba) + 1]

\* The optional exponent of decimal.set, read from index i: ok is false
\* where set returns, e is e * esign and i the index after the exponent.
SetExponent(ba, i) ==
  IF i <= Len(ba) /\ (ba[i] = "e" \/ ba[i] = "E") THEN
    IF i + 1 > Len(ba) THEN [ok |-> FALSE, e |-> 0, i |-> i + 1]
    ELSE
      LET esign == IF ba[i + 1] = "-" THEN 0 - 1 ELSE 1
          j == IF ba[i + 1] = "+" \/ ba[i + 1] = "-" THEN i + 2 ELSE i + 1
      IN  IF j > Len(ba) \/ ~IsDigit(ba[j]) THEN [ok |-> FALSE, e |-> 0, i |-> j]
          ELSE
            LET st == SetExpLoop(
                              [ba |-> ba, i |-> j, e |-> 0, done |-> FALSE],
                              Len(ba) - j + 1)
            IN  [ok |-> TRUE, e |-> st.e * esign, i |-> st.i]
  ELSE [ok |-> TRUE, e |-> 0, i |-> i]

\* d.set(ba) on a fresh decimal: the decimal as the call leaves it (dec), and ok.
set(ba) ==
  IF Len(ba) = 0 THEN [dec |-> NewDecimal, ok |-> FALSE]
  ELSE
    LET sg == ScanSign(ba)
        st == SetDigitsLoop(
                      [ba |-> ba, i |-> sg.i, d |-> <<>>, dp |-> 0, trunc |-> FALSE,
                       sawdot |-> FALSE, sawdigits |-> FALSE, fail |-> FALSE,
                       done |-> (sg.i > Len(ba))],
                      Len(ba) - sg.i + 1)
        dp1 == IF st.sawdot THEN st.dp ELSE Len(st.d)
        ex == SetExponent(ba, st.i)
        dec == [d |-> st.d, dp |-> st.dp, neg |-> sg.neg, trunc |-> st.trunc]
    IN  IF st.fail \/ ~st.sawdigits THEN [dec |-> dec, ok |-> FALSE]
        ELSE IF ~ex.ok THEN [dec |-> [dec EXCEPT !.dp = dp1], ok |-> FALSE]
        ELSE [dec |-> [dec EXCEPT !.dp = dp1 + ex.e], ok |-> (ex.i = Len(ba) + 1)]

(***************************************************************************)
(* Binary shifts of the decimal.  A shift of more than maxShift bits is    *)
(* done in passes of maxShift bits.                                        *)
(***************************************************************************)
maxShift == 27

\* One step of trim: drop a trailing zero.
TrimStep(st) ==
  [st EXCEPT !.n = @ - 1, !.done = (st.n - 1 = 0 \/ st.d[st.n - 1] # 0)]

RECURSIVE TrimLoop(_, _)
TrimLoop(st, n) ==
  IF n <= 0 \/ st.done THEN st
  ELSE IF n = 1 THEN TrimStep(st)
  ELSE TrimLoop(TrimLoop(st, n \div 2), n - n \div 2)

\* trim(a): no trailing zero digit is kept; the decimal without digits is 0.
trim(a) ==
  LET nd == Len(a.d)
      st == TrimLoop( [d |-> a.d, n |-> nd, done |-> (nd = 0 \/ a.d[nd] # 0)], nd)
  IN  IF st.n = 0 THEN [a EXCEPT !.d = <<>>, !.dp = 0]
      ELSE IF st.n = nd THEN a
      ELSE [a EXCEPT !.d = SubSeq(a.d, 1, st.n)]

\* rightShift, first loop: pick up enough leading digits to cover the shift.
RightPickStep(st) ==
  IF st.n \div (2 ^ st.k) # 0 THEN [st EXCEPT !.done = TRUE]
  ELSE IF st.r >= Len(st.d) THEN
    IF st.n = 0 THEN [st EXCEPT !.zero = TRUE, !.done = TRUE]
    ELSE [st EXCEPT !.n = @ * 10, !.r = @ + 1,
                    !.done = ((st.n * 10) \div (2 ^ st.k) # 0)]
  ELSE [st EXCEPT !.n = @ * 10 + st.d[st.r + 1], !.r = @ + 1]

RECURSIVE RightPickLoop(_, _)
RightPickLoop(st, n) ==
  IF n <= 0 \/ st.done THEN st
  ELSE IF n = 1 THEN RightPickStep(st)
  ELSE RightPickLoop(RightPickLoop(st, n \div 2), n - n \div 2)

\* rightShift, second loop: pick up a digit, put down a digit.
RightMoveStep(st) ==
  [st EXCEPT !.out = Append(@, st.n \div (2 ^ st.k)),
             !.n = (@ % (2 ^ st.k)) * 10 + st.d[st.r + 1],
             !.r = @ + 1,
             !.done = (st.r + 1 >= Len(st.d))]

RECURSIVE RightMoveLoop(_, _)
RightMoveLoop(st, n) ==
  IF n <= 0 \/ st.done THEN st
  ELSE IF n = 1 THEN RightMoveStep(st)
  ELSE RightMoveLoop(RightMoveLoop(st, n \div 2), n - n \div 2)

\* rightShift, third loop: put down extra digits.
RightExtraStep(st) ==
  LET dig == st.n \div (2 ^ st.k)
      rest == (st.n % (2 ^ st.k)) * 10
  IN  IF Len(st.out) < DecimalCap THEN
        [st EXCEPT !.out = Append(@, dig), !.n = rest, !.done = (rest = 0)]
      ELSE IF dig > 0 THEN
        [st EXCEPT !.trunc = TRUE, !.n = rest, !.done = (rest = 0)]
      ELSE [st EXCEPT !.n = rest, !.done = (rest = 0)]

RECURSIVE RightExtraLoop(_, _)
RightExtraLoop(st, n) ==
  IF n <= 0 \/ st.done THEN st
  ELSE IF n = 1 THEN RightExtraStep(st)
  ELSE RightExtraLoop(RightExtraLoop(st, n \div 2), n - n \div 2)

\* rightShift after its loops: r digits were read by the first loop, the
\* third ended in the state extra.
rightShiftPut(a, r, extra) ==
  trim([a EXCEPT !.d = extra.out, !.dp = @ - (r - 1), !.trunc = extra.trunc])

\* rightShift from the third loop on; the second ended in the state move.
rightShiftExtra(a, k, r, move) ==
  rightShiftPut(a, r,
                RightExtraLoop([k |-> k, n |-> move.n, out |-> move.out,
                                trunc |-> a.trunc, done |-> (move.n = 0)],
                               k + DecimalCap))

\* rightShift from the second loop on; the first ended in the state pick.
rightShiftMove(a, k, pick) ==
  IF pick.zero THEN [a EXCEPT !.d = <<>>]
  ELSE rightShiftExtra(a, k, pick.r,
                       RightMoveLoop([d |-> a.d, k |-> k, n |-> pick.n, r |-> pick.r,
                                      out |-> <<>>, done |-> (pick.r >= Len(a.d))],
                                     Len(a.d)))

\* rightShift(a, k): a / 2^k, for 0 < k <= maxShift.
rightShift(a, k) ==
  rightShiftMove(a, k,
                 RightPickLoop([d |-> a.d, k |-> k, n |-> 0, r |-> 0, zero |-> FALSE,
                                done |-> FALSE],
                               Len(a.d) + k + 2))

\* leftShift, both loops: multiply digit by digit from the last, the digits
\* of the product being put down last digit first.
LeftStep(st) ==
  LET n == IF st.r >= 1 THEN st.n + st.d[st.r] * (2 ^ st.k) ELSE st.n
      quo == n \div 10
      rem == n - 10 * quo
  IN  [st EXCEPT !.rev = Append(@, rem), !.n = quo, !.r = @ - 1,
                 !.done = (st.r - 1 < 1 /\ quo = 0)]

RECURSIVE LeftLoop(_, _)
LeftLoop(st, n) ==
  IF n <= 0 \/ st.done THEN st
  ELSE IF n = 1 THEN LeftStep(st)
  ELSE LeftLoop(LeftLoop(st, n \div 2), n - n \div 2)

\* leftShift after its loops, which put down the digits rev, last digit
\* first.  delta is the number of digits the product has more than a; a digit
\* that falls beyond the digit array is dropped, and sets trunc when it is
\* not zero.
leftShiftPut(a, rev) ==
  LET nd == Len(a.d)
      total == Len(rev)
      delta == total - nd
      kept == IF total > DecimalCap THEN DecimalCap ELSE total
      lost == \E j \in 1..(total - kept) : rev[j] # 0
  IN  trim([a EXCEPT !.d = [j \in 1..kept |-> rev[total + 1 - j]],
                     !.dp = @ + delta,
                     !.trunc = (@ \/ lost)])

\* leftShift(a, k): a * 2^k, for 0 < k <= maxShift.
leftShift(a, k) ==
  leftShiftPut(a, LeftLoop([d |-> a.d, k |-> k, n |-> 0, r |-> Len(a.d), rev |-> <<>>,
                            done |-> FALSE],
                           Len(a.d) + k).rev)

\* One pass of Shift.
ShiftStep(st) ==
  IF st.k > maxShift THEN
    [st EXCEPT !.a = leftShift(@, maxShift), !.k = @ - maxShift]
  ELSE IF st.k > 0 THEN
    [st EXCEPT !.a = leftShift(@, st.k), !.k = 0, !.done = TRUE]
  ELSE IF st.k < 0 - maxShift THEN
    [st EXCEPT !.a = rightShift(@, maxShift), !.k = @ + maxShift]
  ELSE IF st.k < 0 THEN
    [st EXCEPT !.a = rightShift(@, 0 - st.k), !.k = 0, !.done = TRUE]
  ELSE [st EXCEPT !.done = TRUE]

RECURSIVE ShiftLoop(_, _)
ShiftLoop(st, n) ==
  IF n <= 0 \/ st.done THEN st
  ELSE IF n = 1 THEN ShiftStep(st)
  ELSE ShiftLoop(ShiftLoop(st, n \div 2), n - n \div 2)

Abs(x) == IF x < 0 THEN 0 - x ELSE x

\* a.Shift(k): a * 2^k.
Shift(a, k) ==
  IF Len(a.d) = 0 THEN a
  ELSE ShiftLoop( [a |-> a, k |-> k, done |-> FALSE], Abs(k) \div maxShift + 1).a

\* shouldRoundUp(a, nd): whether rounding a to nd digits rounds up; nd counts
\* digits, so the digit looked at is d[nd + 1].
shouldRoundUp(a, nd) ==
  IF nd < 0 \/ nd >= Len(a.d) THEN FALSE
  ELSE IF a.d[nd + 1] = 5 /\ nd + 1 = Len(a.d) THEN
    \* exactly halfway: round to even, unless digits were truncated
    IF a.trunc THEN TRUE
    ELSE nd > 0 /\ a.d[nd] % 2 # 0
  ELSE a.d[nd + 1] >= 5

U64Max == <<LimbBase - 1, LimbBase - 1, TopBase - 1>>

\* The integer part of a, as the loops of RoundedInteger add it up.
RECURSIVE IntegerPart(_, _)
IntegerPart(a, i) ==
  IF i = 0 THEN U64Zero
  ELSE U64MulAdd(IntegerPart(a, i - 1), 10, IF i <= Len(a.d) THEN a.d[i] ELSE 0)

\* a.RoundedInteger(): a rounded to the nearest integer, halves to even.
RoundedInteger(a) ==
  IF a.dp > 20 THEN U64Max
  ELSE LET n == IntegerPart(a, IF a.dp > 0 THEN a.dp ELSE 0)
       IN  IF shouldRoundUp(a, a.dp) THEN U64Add(n, U64(1)) ELSE n

(***************************************************************************)
(* floatInfo and decimal.floatBits.                                        *)
(***************************************************************************)
float32info == [mantbits |-> 23, expbits |-> 8, bias |-> 0 - 127]

float64info == [mantbits |-> 52, expbits |-> 11, bias |-> 0 - 1023]

\* decimal power of ten to binary power of two.
powtab == <<1, 3, 6, 9, 13, 16, 19, 23, 26>>

\* The bound on the iterations of a scaling loop the model follows.
MaxScaleSteps == 400

\* for d.dp > 0 { d.Shift(-n); exp += n }
ScaleDownStep(st) ==
  LET n == IF st.d.dp >= Len(powtab) THEN 27 ELSE powtab[st.d.dp + 1]
      d1 == Shift(st.d, 0 - n)
  IN  [st EXCEPT !.d = d1, !.exp = @ + n, !.steps = @ + 1, !.done = ~(d1.dp > 0)]

RECURSIVE ScaleDownLoop(_, _)
ScaleDownLoop(st, n) ==
  IF n <= 0 \/ st.done THEN st
  ELSE IF n = 1 THEN ScaleDownStep(st)
  ELSE ScaleDownLoop(ScaleDownLoop(st, n \div 2), n - n \div 2)

\* An iteration of the second scaling loop that shifts nothing.
ScaleUpStepIdle(st) == [st EXCEPT !.steps = @ + 1]

\* for d.dp < 0 || d.dp == 0 && d.d[0] < '5' { d.Shift(n); exp -= n }
ScaleUpCond(d) == d.dp < 0 \/ (d.dp = 0 /\ d.d[1] < 5)

ScaleUpStep(st) ==
  LET n == IF 0 - st.d.dp >= Len(powtab) THEN 27 ELSE powtab[0 - st.d.dp + 1]
      d1 == Shift(st.d, n)
  IN  [st EXCEPT !.d = d1, !.exp = @ - n, !.steps = @ + 1, !.done = ~ScaleUpCond(d1)]

RECURSIVE ScaleUpLoop(_, _)
ScaleUpLoop(st, n) ==
  IF n <= 0 \/ st.done THEN st
  ELSE IF n = 1 THEN ScaleUpStep(st)
  ELSE ScaleUpLoop(ScaleUpLoop(st, n \div 2), n - n \div 2)

\* The label out of floatBits: assemble bits.
AssembleBits(mant, exp, neg, flt) ==
  LET frac == U64LowBits(mant, flt.mantbits)
      field == (exp - flt.bias) % (2 ^ flt.expbits)
      withExp == U64Or(frac, U64Shl(U64(field), flt.mantbits))
  IN  IF neg THEN U64Or(withExp, U64Shl(U64Shl(U64(1), flt.mantbits), flt.expbits))
      ELSE withExp

\* An overflow that returns the infinity without its sign.
OverflowBitsUnsigned(neg, flt) ==
  AssembleBits(U64Zero, 2 ^ flt.expbits - 1 + flt.bias, FALSE, flt)

\* The label overflow of floatBits: +-Inf.
OverflowBits(neg, flt) ==
  AssembleBits(U64Zero, 2 ^ flt.expbits - 1 + flt.bias, neg, flt)

\* The exits of floatBits, with the bits, the overflow flag, and for the
\* properties of the function itself the exit taken, the shifts applied, the
\* mantissa and the exponent.
floatBitsOverflow(d, flt, shifts) ==
  [bits |-> OverflowBits(d.neg, flt), overflow |-> TRUE, exit |-> "overflow",
   shifts |-> shifts, mant |-> U64Zero, exp |-> 2 ^ flt.expbits - 1 + flt.bias]

floatBitsZero(d, flt, exit) ==
  [bits |-> AssembleBits(U64Zero, flt.bias, d.neg, flt), overflow |-> FALSE,
   exit |-> exit, shifts |-> 0, mant |-> U64Zero, exp |-> flt.bias]

\* An end of floatBits that leaves the exponent of a denormal as it is.
floatBitsOutUnpinned(d, flt, mant, exp, shifts) ==
  LET carry == mant = U64Shl(U64(2), flt.mantbits)
      mant1 == IF carry THEN U64Shr(mant, 1) ELSE mant
      exp1 == IF carry THEN exp + 1 ELSE exp
  IN  IF exp1 - flt.bias >= 2 ^ flt.expbits - 1 THEN floatBitsOverflow(d, flt, shifts)
      ELSE
        [bits |-> AssembleBits(mant1, exp1, d.neg, flt), overflow |-> FALSE,
         exit |-> "normal", shifts |-> shifts + 1, mant |-> mant1, exp |-> exp1]

\* floatBits from the rounded mantissa on: a carry of the rounding, the
\* denormal exponent, the overflow checks, the bits.
floatBitsOut(d, flt, mant, exp, shifts) ==
  LET \* Rounding might have added a bit; shift down.
      carry == mant = U64Shl(U64(2), flt.mantbits)
      mant1 == IF carry THEN U64Shr(mant, 1) ELSE mant
      exp1 == IF carry THEN exp + 1 ELSE exp
      \* Denormalized?
      exp2 == IF ~U64Bit(mant1, flt.mantbits) THEN flt.bias ELSE exp1
  IN  IF exp - flt.bias >= 2 ^ flt.expbits - 1 THEN floatBitsOverflow(d, flt, shifts)
      ELSE IF carry /\ exp1 - flt.bias >= 2 ^ flt.expbits - 1 THEN
        floatBitsOverflow(d, flt, shifts + 1)
      ELSE
        [bits |-> AssembleBits(mant1, exp2, d.neg, flt), overflow |-> FALSE,
         exit |-> "normal", shifts |-> shifts + 1, mant |-> mant1, exp |-> exp2]

\* floatBits from the scaled decimal on: up is the state after both scaling
\* loops, the decimal in [0.5, 1).
floatBitsScaled(d, flt, up) ==
  LET \* Our range is [0.5,1) but floating point range is [1,2).
      exp1 == up.exp - 1
      \* Minimum representable exponent is flt.bias+1.
      low == exp1 < flt.bias + 1
      n == IF low THEN flt.bias + 1 - exp1 ELSE 0
  IN  IF ~up.done THEN
        [bits |-> U64Zero, overflow |-> FALSE, exit |-> "running",
         shifts |-> up.steps, mant |-> U64Zero, exp |-> up.exp]
      ELSE
        \* Extract 1+flt.mantbits bits.
        floatBitsOut(d, flt,
                     RoundedInteger(Shift(Shift(up.d, 0 - n), 1 + flt.mantbits)),
                     exp1 + n,
                     up.steps + (IF low THEN 1 ELSE 0))

\* floatBits from the second scaling loop on: down is the state after the first.
floatBitsScaleUp(d, flt, down) ==
  IF ~down.done THEN floatBitsScaled(d, flt, down)
  ELSE floatBitsScaled(d, flt,
                       ScaleUpLoop(
                               [d |-> down.d, exp |-> down.exp, steps |-> down.steps,
                                done |-> ~ScaleUpCond(down.d)],
                               MaxScaleSteps))

\* A floatBits that scales every decimal that is not zero.
floatBitsAlwaysScaling(d, flt) ==
  IF Len(d.d) = 0 THEN floatBitsZero(d, flt, "zero")
  ELSE floatBitsScaleUp(d, flt,
                        ScaleDownLoop(
                                [d |-> d, exp |-> 0, steps |-> 0, done |-> ~(d.dp > 0)],
                                MaxScaleSteps))

\* d.floatBits(flt)
floatBits(d, flt) ==
  IF Len(d.d) = 0 THEN floatBitsZero(d, flt, "zero")
  ELSE IF d.dp > 310 THEN floatBitsOverflow(d, flt, 0)
  ELSE IF d.dp < 0 - 330 THEN floatBitsZero(d, flt, "underflow")
  ELSE floatBitsScaleUp(d, flt,
                        ScaleDownLoop(
                                [d |-> d, exp |-> 0, steps |-> 0, done |-> ~(d.dp > 0)],
                                MaxScaleSteps))

(***************************************************************************)
(* readFloat: the mantissa (at most 19 digits) and exponent of the fast    *)
(* paths.                                                                  *)
(***************************************************************************)
uint64digits == 19

\* One iteration of the digit loop of readFloat.
ReadDigitsStep(st) ==
  LET c == st.ba[st.i]
      next == [st EXCEPT !.i = @ + 1, !.done = (st.i + 1 > Len(st.ba))]
  IN  IF c = "." THEN
        IF st.sawdot THEN [st EXCEPT !.fail = TRUE, !.done = TRUE]
        ELSE [next EXCEPT !.sawdot = TRUE, !.dp = st.nd]
      ELSE IF IsDigit(c) THEN
        IF c = "0" /\ st.nd = 0 THEN
          [next EXCEPT !.sawdigits = TRUE, !.dp = @ - 1]
        ELSE IF st.ndMant < uint64digits THEN
          [next EXCEPT !.sawdigits = TRUE, !.nd = @ + 1, !.ndMant = @ + 1,
                       !.mantissa = U64MulAdd(@, 10, DigitVal(c))]
        ELSE IF c # "0" THEN
          [next EXCEPT !.sawdigits = TRUE, !.nd = @ + 1, !.trunc = TRUE]
        ELSE [next EXCEPT !.sawdigits = TRUE, !.nd = @ + 1]
      ELSE [st EXCEPT !.done = TRUE]

RECURSIVE ReadDigitsLoop(_, _)
ReadDigitsLoop(st, n) ==
  IF n <= 0 \/ st.done THEN st
  ELSE IF n = 1 THEN ReadDigitsStep(st)
  ELSE ReadDigitsLoop(ReadDigitsLoop(st, n \div 2), n - n \div 2)

\* An iteration of the exponent loop that adds every digit.
ReadExpStepAll(st) ==
  LET c == st.ba[st.i]
  IN  IF IsDigit(c) THEN
        [st EXCEPT !.i = @ + 1, !.e = @ * 10 + DigitVal(c),
                   !.done = (st.i + 1 > Len(st.ba))]
      ELSE [st EXCEPT !.done = TRUE]

\* One iteration of the exponent loop of readFloat.
ReadExpStep(st) ==
  LET c == st.ba[st.i]
  IN  IF IsDigit(c) THEN
        [st EXCEPT !.i = @ + 1,
                   !.e = IF @ < 10000 THEN @ * 10 + DigitVal(c) ELSE @,
                   !.done = (st.i + 1 > Len(st.ba))]
      ELSE [st EXCEPT !.done = TRUE]

RECURSIVE ReadExpLoop(_, _)
ReadExpLoop(st, n) ==
  IF n <= 0 \/ st.done THEN st
  ELSE IF n = 1 THEN ReadExpStep(st)
  ELSE ReadExpLoop(ReadExpLoop(st, n \div 2), n - n \div 2)

\* The optional exponent of readFloat, read from index i.
ReadExponent(ba, i) ==
  IF i <= Len(ba) /\ (ba[i] = "e" \/ ba[i] = "E") THEN
    IF i + 1 > Len(ba) THEN [ok |-> FALSE, e |-> 0, i |-> i + 1]
    ELSE
      LET esign == IF ba[i + 1] = "-" THEN 0 - 1 ELSE 1
          j == IF ba[i + 1] = "+" \/ ba[i + 1] = "-" THEN i + 2 ELSE i + 1
      IN  IF j > Len(ba) \/ ~IsDigit(ba[j]) THEN [ok |-> FALSE, e |-> 0, i |-> j]
          ELSE
            LET st == ReadExpLoop(
                              [ba |-> ba, i |-> j, e |-> 0, done |-> FALSE],
                              Len(ba) - j + 1)
            IN  [ok |-> TRUE, e |-> st.e * esign, i |-> st.i]
  ELSE [ok |-> TRUE, e |-> 0, i |-> i]

NoFloat == [mantissa |-> U64Zero, exp |-> 0, neg |-> FALSE, trunc |-> FALSE, ok |-> FALSE]

readFloat(ba) ==
  IF Len(ba) = 0 THEN NoFloat
  ELSE
    LET sg == ScanSign(ba)
        st == ReadDigitsLoop(
                      [ba |-> ba, i |-> sg.i, mantissa |-> U64Zero, nd |-> 0,
                       ndMant |-> 0, dp |-> 0, trunc |-> FALSE,
                       sawdot |-> FALSE, sawdigits |-> FALSE, fail |-> FALSE,
                       done |-> (sg.i > Len(ba))],
                      Len(ba) - sg.i + 1)
        dp1 == IF st.sawdot THEN st.dp ELSE st.nd
        ex == ReadExponent(ba, st.i)
        res == [mantissa |-> st.mantissa, exp |-> 0, neg |-> sg.neg,
                trunc |-> st.trunc, ok |-> FALSE]
    IN  IF st.fail \/ ~st.sawdigits \/ ~ex.ok \/ ex.i # Len(ba) + 1 THEN res
        ELSE [res EXCEPT !.exp = IF U64IsZero(st.mantissa) THEN 0
                                 ELSE dp1 + ex.e - st.ndMant,
                         !.ok = TRUE]

(***************************************************************************)
(* IEEE-754 rounding of an exact decimal value, by exact arithmetic.  The  *)
(* value is digs * 10^p, digs a sequence of decimal digits read as an      *)
(* integer.  A scaling by 2^k multiplies the digits by 2^k (k > 0), or by  *)
(* 5^-k with the decimal point moved -k places (k < 0): no digit is ever   *)
(* dropped.  This is the arithmetic of the Go float32 and float64 types,   *)
(* and the yardstick of "correctly rounded".                               *)
(***************************************************************************)
ExactStripStep(st) ==
  [st EXCEPT !.lo = IF st.digs[st.lo] = 0 THEN @ + 1 ELSE @,
             !.done = (st.digs[st.lo] # 0 \/ st.lo + 1 > Len(st.digs))]

RECURSIVE ExactStripLoop(_, _)
ExactStripLoop(st, n) ==
  IF n <= 0 \/ st.done THEN st
  ELSE IF n = 1 THEN ExactStripStep(st)
  ELSE ExactStripLoop(ExactStripLoop(st, n \div 2), n - n \div 2)

ExactTrailStep(st) ==
  [st EXCEPT !.hi = IF st.digs[st.hi] = 0 THEN @ - 1 ELSE @,
             !.done = (st.digs[st.hi] # 0 \/ st.hi - 1 < 1)]

RECURSIVE ExactTrailLoop(_, _)
ExactTrailLoop(st, n) ==
  IF n <= 0 \/ st.done THEN st
  ELSE IF n = 1 THEN ExactTrailStep(st)
  ELSE ExactTrailLoop(ExactTrailLoop(st, n \div 2), n - n \div 2)

\* digs * 10^p without leading and trailing zero digits (no digit at all for 0).
ExactNorm(digs, p) ==
  LET n == Len(digs)
      a == ExactStripLoop( [digs |-> digs, lo |-> 1, done |-> (n = 0)], n)
      b == ExactTrailLoop( [digs |-> digs, hi |-> n, done |-> (n = 0)], n)
  IN  IF a.lo > b.hi THEN [digs |-> <<>>, p |-> 0]
      ELSE [digs |-> SubSeq(digs, a.lo, b.hi), p |-> p + (n - b.hi)]

ExactMulStep(st) ==
  LET n == IF st.r >= 1 THEN st.n + st.digs[st.r] * st.m ELSE st.n
  IN  [st EXCEPT !.rev = Append(@, n % 10), !.n = n \div 10, !.r = @ - 1,
                 !.done = (st.r - 1 < 1 /\ n \div 10 = 0)]

RECURSIVE ExactMulLoop(_, _)
ExactMulLoop(st, n) ==
  IF n <= 0 \/ st.done THEN st
  ELSE IF n = 1 THEN ExactMulStep(st)
  ELSE ExactMulLoop(ExactMulLoop(st, n \div 2), n - n \div 2)

\* The digits of digs * m, for 0 < m <= 2^27.
ExactMul(digs, m) ==
  LET st == ExactMulLoop(
                    [digs |-> digs, m |-> m, n |-> 0, r |-> Len(digs), rev |-> <<>>,
                     done |-> (Len(digs) = 0)],
                    Len(digs) + 10)
      total == Len(st.rev)
  IN  [j \in 1..total |-> st.rev[total + 1 - j]]

ExactScaleStep(st) ==
  LET x == st.x
  IN  IF st.k >= 27 THEN
        [st EXCEPT !.x = ExactNorm(ExactMul(x.digs, 2 ^ 27), x.p), !.k = @ - 27]
      ELSE IF st.k > 0 THEN
        [st EXCEPT !.x = ExactNorm(ExactMul(x.digs, 2 ^ st.k), x.p), !.k = 0,
                   !.done = TRUE]
      ELSE IF st.k <= 0 - 11 THEN
        [st EXCEPT !.x = ExactNorm(ExactMul(x.digs, 5 ^ 11), x.p - 11), !.k = @ + 11]
      ELSE IF st.k < 0 THEN
        [st EXCEPT !.x = ExactNorm(ExactMul(x.digs, 5 ^ (0 - st.k)), x.p + st.k),
                   !.k = 0, !.done = TRUE]
      ELSE [st EXCEPT !.done = TRUE]

RECURSIVE ExactScaleLoop(_, _)
ExactScaleLoop(st, n) ==
  IF n <= 0 \/ st.done THEN st
  ELSE IF n = 1 THEN ExactScaleStep(st)
  ELSE ExactScaleLoop(ExactScaleLoop(st, n \div 2), n - n \div 2)

\* x * 2^k, exactly.
ExactScale(x, k) ==
  ExactScaleLoop( [x |-> x, k |-> k, done |-> FALSE], Abs(k) \div 11 + 2).x

\* The integer part of x, for x below 2^63, and whether x is above, at or
\* below the middle between that integer and the next ("up", "half", "down").
ExactIntPart(x) ==
  LET n == Len(x.digs)
      cut == n + x.p
      int == IF cut <= 0 THEN <<>>
             ELSE [j \in 1..cut |-> IF j <= n THEN x.digs[j] ELSE 0]
      first == IF cut < 0 \/ cut >= n THEN 0 ELSE x.digs[cut + 1]
      more == cut < 0 \/ (cut + 1 < n)
  IN  [int |-> U64OfDigits(int, Len(int)),
       frac |-> IF first > 5 \/ (first = 5 /\ more) THEN "up"
                ELSE IF first = 5 THEN "half"
                ELSE "down"]

\* floor(log2(n)) for 0 < n < 2^31
RECURSIVE Log2(_)
Log2(n) == IF n <= 1 THEN 0 ELSE 1 + Log2(n \div 2)

\* A power of two t with 2^t <= v < 2^(t+6), for v in [10^(mag-1), 10^mag).
Pow2Below(mag) ==
  LET q == mag - 1
  IN  IF q >= 0 THEN (q * 3321) \div 1000
      ELSE 0 - (((0 - q) * 3322 + 999) \div 1000)

\* The bits of a float of format flt: sign, exponent field, fraction.
FloatOf(neg, field, frac, flt) ==
  LET mag == U64Add(U64Shl(U64(field), flt.mantbits), frac)
  IN  IF neg THEN U64Add(mag, U64Pow2(flt.mantbits + flt.expbits)) ELSE mag

\* The float with the integer significand m (below 2^(mantbits+1), or that
\* very power after a carry of the rounding) and the binary exponent e.
RoundPack(neg, m, e, flt) ==
  LET carry == m = U64Pow2(flt.mantbits + 1)
      m1 == IF carry THEN U64Shr(m, 1) ELSE m
      e1 == IF carry THEN e + 1 ELSE e
  IN  IF e1 - flt.bias >= 2 ^ flt.expbits - 1 THEN
        [bits |-> FloatOf(neg, 2 ^ flt.expbits - 1, U64Zero, flt), overflow |-> TRUE]
      ELSE IF U64Less(m1, U64Pow2(flt.mantbits)) THEN
        [bits |-> FloatOf(neg, 0, m1, flt), overflow |-> FALSE]
      ELSE
        [bits |-> FloatOf(neg, e1 - flt.bias, U64Sub(m1, U64Pow2(flt.mantbits)), flt),
         overflow |-> FALSE]

\* u is the integer part and the fraction class of v / 2^(e - mantbits).
RoundInt(neg, u, e, flt) ==
  RoundPack(neg,
            IF u.frac = "up" \/ (u.frac = "half" /\ u.int[1] % 2 = 1)
            THEN U64Add(u.int, U64(1)) ELSE u.int,
            e, flt)

\* w = v / 2^t is in [1, 64), and 2^e0 <= v < 2^(e0+1).
RoundAt(neg, w, t, e0, flt) ==
  LET emin == flt.bias + 1
      e == IF e0 < emin THEN emin ELSE e0
  IN  RoundInt(neg, ExactIntPart(ExactScale(w, flt.mantbits - (e - t))), e, flt)

RoundScaled(neg, w, t, flt) ==
  RoundAt(neg, w, t, t + Log2(ExactIntPart(w).int[1]), flt)

\* v is normalised, mag the number of digits of its integer part.
RoundNorm(neg, v, mag, flt) ==
  IF Len(v.digs) = 0 \/ mag < 0 - 400 THEN
    [bits |-> FloatOf(neg, 0, U64Zero, flt), overflow |-> FALSE]
  ELSE IF mag > 400 THEN
    [bits |-> FloatOf(neg, 2 ^ flt.expbits - 1, U64Zero, flt), overflow |-> TRUE]
  ELSE RoundScaled(neg, ExactScale(v, 0 - Pow2Below(mag)), Pow2Below(mag), flt)

RoundValue(neg, v, flt) == RoundNorm(neg, v, Len(v.digs) + v.p, flt)

\* The float of format flt nearest to (-1)^neg * digs * 10^p, halves to the
\* even neighbour; overflow says that this is an infinity.
RoundNearestEven(neg, digs, p, flt) == RoundValue(neg, ExactNorm(digs, p), flt)

(***************************************************************************)
(* float32 and float64 values, as bit patterns, and the operations Go      *)
(* applies to them: each gives the float nearest to the exact result.      *)
(***************************************************************************)
FloatSign(f, flt) == U64Bit(f, flt.mantbits + flt.expbits)

FloatField(f, flt) == U64Field(f, flt.mantbits, flt.expbits)

FloatFrac(f, flt) == U64LowBits(f, flt.mantbits)

FloatIsNaN(f, flt) ==
  FloatField(f, flt) = 2 ^ flt.expbits - 1 /\ ~U64IsZero(FloatFrac(f, flt))

FloatIsInf(f, flt) ==
  FloatField(f, flt) = 2 ^ flt.expbits - 1 /\ U64IsZero(FloatFrac(f, flt))

FloatIsZero(f, flt) == FloatField(f, flt) = 0 /\ U64IsZero(FloatFrac(f, flt))

\* -f
FloatNeg(f, flt) ==
  IF FloatSign(f, flt) THEN U64Sub(f, U64Pow2(flt.mantbits + flt.expbits))
  ELSE U64Add(f, U64Pow2(flt.mantbits + flt.expbits))

\* f, or -f if neg
FloatSigned(neg, f, flt) == IF neg THEN FloatNeg(f, flt) ELSE f

\* |f|
FloatAbs(f, flt) == IF FloatSign(f, flt) THEN FloatNeg(f, flt) ELSE f

\* The exact value of |f| for a finite f, as digs * 10^p.
FloatExact(f, flt) ==
  LET field == FloatField(f, flt)
      m == IF field = 0 THEN FloatFrac(f, flt)
           ELSE U64Add(FloatFrac(f, flt), U64Pow2(flt.mantbits))
      e == (IF field = 0 THEN 1 ELSE field) + flt.bias - flt.mantbits
  IN  ExactScale(ExactNorm(U64Digits(m), 0), e)

\* float64(u), float32(u) for a uint64 u
FloatOfUint64(u, flt) == RoundNearestEven(FALSE, U64Digits(u), 0, flt).bits

\* The constant 10^k as a float (k <= 22, resp. 10, where it is exact).
FloatPow10(k, flt) == RoundNearestEven(FALSE, <<1>>, k, flt).bits

\* The float nearest to the exact value x times 10^k.
RoundTimesPow10(neg, x, k, flt) == RoundNearestEven(neg, x.digs, x.p + k, flt)

\* f * 10^k and f / 10^k for a finite f, 10^k being a float the power tables hold
FloatMulPow10(f, k, flt) ==
  RoundTimesPow10(FloatSign(f, flt), FloatExact(f, flt), k, flt).bits

FloatDivPow10(f, k, flt) ==
  RoundTimesPow10(FloatSign(f, flt), FloatExact(f, flt), 0 - k, flt).bits

\* f > g for finite f and g
FloatGreater(f, g, flt) ==
  LET sf == FloatSign(f, flt)
      sg == FloatSign(g, flt)
      af == FloatAbs(f, flt)
      ag == FloatAbs(g, flt)
  IN  IF FloatIsZero(f, flt) /\ FloatIsZero(g, flt) THEN FALSE
      ELSE IF sf # sg THEN sg
      ELSE IF sf THEN U64Less(af, ag)
      ELSE U64Less(ag, af)

\* math.Inf(sign) and math.NaN()
Inf(neg) == FloatOf(neg, 2 ^ float64info.expbits - 1, U64Zero, float64info)

NaN == FloatOf(FALSE, 2 ^ float64info.expbits - 1, U64Add(U64Pow2(51), U64(1)), float64info)

\* float32(f) for a float64 f
Float32Of64(f) ==
  LET neg == FloatSign(f, float64info)
  IN  IF FloatIsNaN(f, float64info) THEN
        FloatOf(neg, 2 ^ float32info.expbits - 1,
                U64Add(U64Pow2(22), U64Shr(U64LowBits(f, 51), 29)), float32info)
      ELSE IF FloatIsInf(f, float64info) THEN
        FloatOf(neg, 2 ^ float32info.expbits - 1, U64Zero, float32info)
      ELSE RoundTimesPow10(neg, FloatExact(f, float64info), 0, float32info).bits

\* float64(f) for a float32 f
Float64Of32(f) ==
  LET neg == FloatSign(f, float32info)
  IN  IF FloatIsNaN(f, float32info) THEN
        FloatOf(neg, 2 ^ float64info.expbits - 1,
                U64Add(U64Pow2(51), U64Shl(U64LowBits(f, 22), 29)), float64info)
      ELSE IF FloatIsInf(f, float32info) THEN Inf(neg)
      ELSE RoundTimesPow10(neg, FloatExact(f, float32info), 0, float64info).bits

(***************************************************************************)
(* The exact fast paths.                                                   *)
(***************************************************************************)
\* Exact powers of 10: the table holds 1e0 .. 1e22, here the exponents.
float64pow10 == [i \in 1..23 |-> i - 1]

float32pow10 == [i \in 1..11 |-> i - 1]

\* batof64exact, case int * 10^k, after the move of the digits beyond 1e22
\* into f: the range check and the multiplication.
batof64exactMul(f, exp, big) ==
  IF FloatGreater(f, big, float64info) \/ FloatGreater(FloatNeg(big, float64info), f, float64info)
  THEN [f |-> f, ok |-> FALSE]
  ELSE [f |-> FloatMulPow10(f, float64pow10[exp + 1], float64info), ok |-> TRUE]

\* batof64exact from f = float64(mantissa), negated if neg, on.
batof64exactFloat(f, exp) ==
  IF exp = 0 THEN [f |-> f, ok |-> TRUE]
  ELSE IF exp > 0 /\ exp <= 15 + 22 THEN
    \* int * 10^k
    batof64exactMul(IF exp > 22
                     THEN FloatMulPow10(f, float64pow10[exp - 22 + 1], float64info)
                     ELSE f,
                     IF exp > 22 THEN 22 ELSE exp,
                     FloatPow10(15, float64info))
  ELSE IF exp < 0 /\ exp >= 0 - 22 THEN
    \* int / 10^k
    [f |-> FloatDivPow10(f, float64pow10[0 - exp + 1], float64info), ok |-> TRUE]
  ELSE [f |-> f, ok |-> FALSE]

\* An exact path that declines every mantissa.
batof64exactNever(mantissa, exp, neg) == [f |-> U64Zero, ok |-> FALSE]

batof64exact(mantissa, exp, neg) ==
  IF ~U64IsZero(U64Shr(mantissa, float64info.mantbits)) THEN
    [f |-> U64Zero, ok |-> FALSE]
  ELSE
    batof64exactFloat(FloatSigned(neg, FloatOfUint64(mantissa, float64info), float64info),
                       exp)

\* batof32exact, case int * 10^k, after the move of the digits beyond 1e10
\* into f: the range check and the multiplication.
batof32exactMul(f, exp, big) ==
  IF FloatGreater(f, big, float32info) \/ FloatGreater(FloatNeg(big, float32info), f, float32info)
  THEN [f |-> f, ok |-> FALSE]
  ELSE [f |-> FloatMulPow10(f, float32pow10[exp + 1], float32info), ok |-> TRUE]

\* An exact path that takes every exponent.
batof32exactFloatAny(f, exp) == [f |-> f, ok |-> TRUE]

\* batof32exact from f = float32(mantissa), negated if neg, on.
batof32exactFloat(f, exp) ==
  IF exp = 0 THEN [f |-> f, ok |-> TRUE]
  ELSE IF exp > 0 /\ exp <= 7 + 10 THEN
    \* int * 10^k
    batof32exactMul(IF exp > 10
                     THEN FloatMulPow10(f, float32pow10[exp - 10 + 1], float32info)
                     ELSE f,
                     IF exp > 10 THEN 10 ELSE exp,
                     FloatPow10(7, float32info))
  ELSE IF exp < 0 /\ exp >= 0 - 10 THEN
    \* int / 10^k
    [f |-> FloatDivPow10(f, float32pow10[0 - exp + 1], float32info), ok |-> TRUE]
  ELSE [f |-> f, ok |-> FALSE]

batof32exact(mantissa, exp, neg) ==
  IF ~U64IsZero(U64Shr(mantissa, float32info.mantbits)) THEN
    [f |-> U64Zero, ok |-> FALSE]
  ELSE
    batof32exactFloat(FloatSigned(neg, FloatOfUint64(mantissa, float32info), float32info),
                       exp)

(***************************************************************************)
(* Special values.                                                         *)
(***************************************************************************)
infinity == <<Bytes("inf"), Bytes("infinity"), Bytes("+inf"), Bytes("+infinity")>>

negInfinity == <<Bytes("-inf"), Bytes("-infinity")>>

nan == Bytes("nan")

special(ba) ==
  IF Len(ba) = 0 THEN [f |-> U64Zero, ok |-> FALSE]
  ELSE IF ba[1] \in {"+", "i", "I"} THEN
    IF \E k \in 1..Len(infinity) : EqualFold(ba, infinity[k])
    THEN [f |-> Inf(FALSE), ok |-> TRUE]
    ELSE [f |-> U64Zero, ok |-> FALSE]
  ELSE IF ba[1] = "-" THEN
    IF \E k \in 1..Len(negInfinity) : EqualFold(ba, negInfinity[k])
    THEN [f |-> Inf(TRUE), ok |-> TRUE]
    ELSE [f |-> U64Zero, ok |-> FALSE]
  ELSE IF ba[1] \in {"n", "N"} THEN
    IF EqualFold(ba, nan) THEN [f |-> NaN, ok |-> TRUE]
    ELSE [f |-> U64Zero, ok |-> FALSE]
  ELSE [f |-> U64Zero, ok |-> FALSE]

(***************************************************************************)
(* The extended-precision fast path: AssignDecimal builds an approximation *)
(* of mantissa * 10^exp with an error bound and reports whether the bound  *)
(* settles the rounding; floatBits then gives the correctly rounded bits.  *)
(***************************************************************************)
\* ext.floatBits(flt) after a successful ext.AssignDecimal(mantissa, exp, neg, ...)
extFloatBits(mantissa, exp, neg, flt) ==
  RoundNearestEven(neg, U64Digits(mantissa), exp, flt)

\* Whether AssignDecimal may report success: with a truncated mantissa only
\* when the dropped digits cannot change the rounding.
AssignDecimal(mantissa, exp, neg, trunc, flt) ==
  \/ ~trunc
  \/ extFloatBits(mantissa, exp, neg, flt)
       = extFloatBits(U64Add(mantissa, U64(1)), exp, neg, flt)

(***************************************************************************)
(* Errors.                                                                 *)
(***************************************************************************)
\* An error value (errors.New) is the sequence of the pieces of its text.
ErrRange == <<"value out of range">>

ErrSyntax == <<"invalid syntax">>

\* A *NumError; nil is the error that is none.
NumError(fn, str, err) == [Func |-> fn, Num |-> str, Err |-> err]

nil == [Func |-> "", Num |-> <<>>, Err |-> <<>>]

syntaxError(fn, str) == NumError(fn, str, ErrSyntax)

\* A range error that leaves the input out.
rangeErrorNoInput(fn, str) == NumError(fn, <<>>, ErrRange)

rangeError(fn, str) == NumError(fn, str, ErrRange)

fnParseFloat == "ParseFloat"

\* Itoba(i): the decimal text of i.
RECURSIVE Itoba(_)
Itoba(i) ==
  IF i < 0 THEN <<"-">> \o Itoba(0 - i)
  ELSE IF i < 10 THEN <<DigitChars[i + 1]>>
  ELSE Append(Itoba(i \div 10), DigitChars[(i % 10) + 1])

baseError(fn, str, base) == NumError(fn, str, <<"invalid base ">> \o Itoba(base))

bitSizeError(fn, str, bitSize) == NumError(fn, str, <<"invalid bit size ">> \o Itoba(bitSize))

(***************************************************************************)
(* Integers.  An int64 and an int are held as their two's complement bits. *)
(***************************************************************************)
intSize == 64

IntSize == intSize

maxUint64 == U64Max

\* u / m for 0 < m <= 36
U64Div(u, m) ==
  LET t1 == (u[3] % m) * LimbBase + u[2]
      t0 == (t1 % m) * LimbBase + u[1]
  IN  <<t0 \div m, t1 \div m, u[3] \div m>>

\* -n for an int64 n
Int64Neg(n) == U64Sub(U64Zero, n)

fnParseUint == "ParseUint"

\* The digit a byte stands for in ParseUint, 99 for a byte that is no digit.
ByteDigit(c) ==
  IF IsDigit(c) THEN DigitVal(c)
  ELSE IF IsIn(c, LowerChars) THEN IndexIn(c, LowerChars) - 1 + 10
  ELSE IF IsIn(c, UpperChars) THEN IndexIn(c, UpperChars) - 1 + 10
  ELSE 99

\* One iteration of the loop of ParseUint over the bytes, the byte being the
\* digit d, with n0 = n * base.
ParseUintDigit(st, d, n0) ==
  LET n1 == U64Add(n0, U64(d))
  IN  IF d = 99 \/ d >= st.base THEN
        [st EXCEPT !.n = U64Zero, !.err = "syntax", !.done = TRUE]
      ELSE IF U64LessEq(st.cutoff, st.n) THEN
        \* n*base overflows
        [st EXCEPT !.n = st.maxVal, !.err = "range", !.done = TRUE]
      ELSE IF U64Less(n1, n0) \/ U64Less(st.maxVal, n1) THEN
        \* n+v overflows
        [st EXCEPT !.n = st.maxVal, !.err = "range", !.done = TRUE]
      ELSE [st EXCEPT !.n = n1, !.i = @ + 1, !.done = (st.i + 1 > Len(st.ba))]

ParseUintStep(st) ==
  ParseUintDigit(st, ByteDigit(st.ba[st.i]), U64MulAdd(st.n, st.base, 0))

RECURSIVE ParseUintLoop(_, _)
ParseUintLoop(st, n) ==
  IF n <= 0 \/ st.done THEN st
  ELSE IF n = 1 THEN ParseUintStep(st)
  ELSE ParseUintLoop(ParseUintLoop(st, n \div 2), n - n \div 2)

\* ParseUint after its loop, which ended in the state st.
ParseUintResult(ba0, st) ==
  [n |-> st.n,
   err |-> IF st.err = "syntax" THEN syntaxError(fnParseUint, ba0)
           ELSE IF st.err = "range" THEN rangeError(fnParseUint, ba0)
           ELSE nil]

\* ParseUint from the loop on: ba is the digits, ba0 the input.
ParseUintFrom(ba0, ba, base, bitSize) ==
  ParseUintResult(ba0,
    ParseUintLoop(
            [ba |-> ba, i |-> 1, n |-> U64Zero, base |-> base,
             \* Cutoff is the smallest number such that cutoff*base > maxUint64.
             cutoff |-> U64Add(U64Div(maxUint64, base), U64(1)),
             maxVal |-> U64Sub(U64Shl(U64(1), bitSize), U64(1)),
             err |-> "nil", done |-> (Len(ba) = 0)],
            Len(ba)))

ParseUint(ba, base, bitSize) ==
  IF Len(ba) = 0 THEN [n |-> U64Zero, err |-> syntaxError(fnParseUint, ba)]
  ELSE
    LET ba0 == ba
        hex == base = 0 /\ ba[1] = "0" /\ Len(ba) > 1 /\ (ba[2] = "x" \/ ba[2] = "X")
        oct == base = 0 /\ ~hex /\ ba[1] = "0"
    IN  IF ~(2 <= base /\ base <= 36) /\ base # 0 THEN
          [n |-> U64Zero, err |-> baseError(fnParseUint, ba0, base)]
        ELSE IF hex /\ Len(ba) < 3 THEN
          [n |-> U64Zero, err |-> syntaxError(fnParseUint, ba0)]
        ELSE IF bitSize < 0 \/ bitSize > 64 THEN
          [n |-> U64Zero, err |-> bitSizeError(fnParseUint, ba0, bitSize)]
        ELSE
          ParseUintFrom(ba0,
                        IF hex THEN SubSeq(ba, 3, Len(ba))
                        ELSE IF oct THEN SubSeq(ba, 2, Len(ba))
                        ELSE ba,
                        IF base # 0 THEN base ELSE IF hex THEN 16 ELSE IF oct THEN 8 ELSE 10,
                        IF bitSize = 0 THEN IntSize ELSE bitSize)

fnParseInt == "ParseInt"

\* ParseInt after un, err = ParseUint(ba, base, bitSize), r being the pair.
ParseIntCheck(ba0, neg, r, cutoff) ==
  IF r.err # nil /\ r.err.Err # ErrRange THEN
    [i |-> U64Zero, err |-> [r.err EXCEPT !.Func = fnParseInt, !.Num = ba0]]
  ELSE IF ~neg /\ U64LessEq(cutoff, r.n) THEN
    [i |-> U64Sub(cutoff, U64(1)), err |-> rangeError(fnParseInt, ba0)]
  ELSE IF neg /\ U64Less(cutoff, r.n) THEN
    [i |-> Int64Neg(cutoff), err |-> rangeError(fnParseInt, ba0)]
  ELSE [i |-> IF neg THEN Int64Neg(r.n) ELSE r.n, err |-> nil]

ParseInt(ba, base, bitSize) ==
  \* Empty string bad.
  IF Len(ba) = 0 THEN [i |-> U64Zero, err |-> syntaxError(fnParseInt, ba)]
  ELSE
    \* Pick off leading sign; convert unsigned and check range.
    ParseIntCheck(ba, ba[1] = "-",
                  ParseUint(IF ba[1] = "+" \/ ba[1] = "-" THEN SubSeq(ba, 2, Len(ba)) ELSE ba,
                            base, bitSize),
                  U64Shl(U64(1), (IF bitSize = 0 THEN IntSize ELSE bitSize) - 1))

fnBatoi == "Batoi"

\* One iteration of the loop of Batoi's fast path.
BatoiStep(st) ==
  LET c == st.ba[st.i]
  IN  IF ~IsDigit(c) THEN [st EXCEPT !.bad = TRUE, !.done = TRUE]
      ELSE [st EXCEPT !.n = U64MulAdd(@, 10, DigitVal(c)), !.i = @ + 1,
                      !.done = (st.i + 1 > Len(st.ba))]

RECURSIVE BatoiLoop(_, _)
BatoiLoop(st, n) ==
  IF n <= 0 \/ st.done THEN st
  ELSE IF n = 1 THEN BatoiStep(st)
  ELSE BatoiLoop(BatoiLoop(st, n \div 2), n - n \div 2)

\* A fast path that leaves the sign out of the value.
BatoiFastUnsigned(ba0, st) ==
  IF st.bad THEN [i |-> U64Zero, err |-> NumError(fnBatoi, ba0, ErrSyntax)]
  ELSE [i |-> st.n, err |-> nil]

\* The fast path of Batoi after its loop, which ended in the state st.
BatoiFast(ba0, st) ==
  IF st.bad THEN [i |-> U64Zero, err |-> NumError(fnBatoi, ba0, ErrSyntax)]
  ELSE [i |-> IF ba0[1] = "-" THEN Int64Neg(st.n) ELSE st.n, err |-> nil]

\* The slow path of Batoi after i64, err := ParseInt(ba, 10, 0), r being the pair.
BatoiSlow(r) ==
  [i |-> r.i, err |-> IF r.err # nil THEN [r.err EXCEPT !.Func = fnBatoi] ELSE nil]

Batoi(ba) ==
  LET sLen == Len(ba)
  IN  IF (intSize = 32 /\ 0 < sLen /\ sLen < 10) \/ (intSize = 64 /\ 0 < sLen /\ sLen < 19)
      THEN
        \* Fast path for small integers that fit int type.
        LET signed == ba[1] = "-" \/ ba[1] = "+"
            ba1 == IF signed THEN SubSeq(ba, 2, Len(ba)) ELSE ba
        IN  IF signed /\ Len(ba1) < 1 THEN
              [i |-> U64Zero, err |-> NumError(fnBatoi, ba, ErrSyntax)]
            ELSE BatoiFast(ba,
                           BatoiLoop(
                                   [ba |-> ba1, i |-> 1, n |-> U64Zero, bad |-> FALSE,
                                    done |-> (Len(ba1) = 0)],
                                   Len(ba1)))
      ELSE
        \* Slow path for invalid or big integers.
        BatoiSlow(ParseInt(ba, 10, 0))

(***************************************************************************)
(* Booleans.                                                               *)
(***************************************************************************)
trueValues ==
  <<Bytes("1"), Bytes("t"), Bytes("T"), Bytes("true"), Bytes("True"), Bytes("TRUE")>>

falseValues ==
  <<Bytes("false"), Bytes("0"), Bytes("f"), Bytes("F"), Bytes("False"), Bytes("FALSE")>>

\* ParseBool: the boolean b and the error err.
ParseBool(ba) ==
  IF \E k \in 1..Len(trueValues) : trueValues[k] = ba THEN [b |-> TRUE, err |-> nil]
  ELSE IF \E k \in 1..Len(falseValues) : falseValues[k] = ba THEN [b |-> FALSE, err |-> nil]
  ELSE [b |-> FALSE, err |-> syntaxError("ParseBool", ba)]

FormatBool(b) == IF b THEN Bytes("true") ELSE Bytes("true")

AppendBool(dst, b) == IF b THEN dst \o Bytes("true") ELSE dst \o Bytes("false")

(***************************************************************************)
(* The byte slices the callers pass.                                       *)
(***************************************************************************)
MaxLen == 3

Alphabet == {"0", "1", ".", "e", "-", "x"}

\* Every byte slice of at most MaxLen bytes of the alphabet.
ShortInputs == UNION {[1..n -> Alphabet] : n \in 0..MaxLen}

GrammarInputs ==
  {Bytes("+1"), Bytes("1E2"), Bytes("1e+1"), Bytes("1e-1"), Bytes("1.5e3"), Bytes("-.5e1"),
   Bytes("1.e1"), Bytes("+.1"), Bytes("1e1.5"), Bytes("1e1e1"), Bytes("1.1."), Bytes("+-1"),
   Bytes("1e+"), Bytes("1e-"), Bytes(".e-1"), Bytes("-.e1"), Bytes("1 "), Bytes("+"),
   Bytes(" 1"), Bytes("1,5"), Bytes("0x10"), Bytes("1e0x"), Bytes("--1"), Bytes("1.5.e1"),
   Bytes("1e+-1"), Bytes("+e1"), Bytes("1.e"), Bytes("-1.5E+2")}

SpecialInputs ==
  {Bytes("inf"), Bytes("Inf"), Bytes("+INF"), Bytes("-Inf"), Bytes("infinity"), Bytes("-Infinity"),
   Bytes("+INFINITY"), Bytes("Infinity"), Bytes("nan"), Bytes("NaN"), Bytes("NAN"), Bytes("+nan"),
   Bytes("-nan"), Bytes("in"), Bytes("infi"), Bytes("infinit"), Bytes("infinityx"), Bytes("inf1"),
   Bytes("nanx"), Bytes("nana"), Bytes("i"), Bytes("n"), Bytes("N"), Bytes("I"),
   Bytes("-in"), Bytes("+i"), Bytes("-i"), Bytes("na"), Bytes("+infx"), Bytes("-infinit"),
   Bytes("nan0"), Bytes("1inf"), Bytes("inf."), Bytes("Nan1e1"), Bytes("+"), Bytes("-nan1"),
   Bytes("ninf"), Bytes("iNfInItY")}

RoundingInputs ==
  {Bytes("1e23"), Bytes("1E23"), Bytes("100000000000000000000000"),
   Bytes("100000000000000000000001"), Bytes("100000000000000008388608"), Bytes("100000000000000016777215"),
   Bytes("100000000000000016777216"), Bytes("99999999999999974834176"), Bytes("1.00000000000000011102230246251565404236316680908203125"),
   Bytes("1.00000000000000011102230246251565404236316680908203124"), Bytes("1.00000000000000011102230246251565404236316680908203126"), Bytes("1.000000059604644775390625"),
   Bytes("1.000000059604644775390624"), Bytes("1.000000059604644775390626"), Bytes("22.222222222222222"),
   Bytes("123456700"), Bytes("625e-3"), Bytes("-0.1"),
   Bytes("1e-20"), Bytes("12345678901234567890"), Bytes("9007199254740993"),
   Bytes("9007199254740992"), Bytes("16777217"), Bytes("-16777219"),
   Bytes("0.000001"), Bytes("123456789e-5"), Bytes("1e37"),
   Bytes("1e38"), Bytes("5e22"), Bytes("123e17"),
   Bytes("123e18"), Bytes("33554431e3"), Bytes("4951760157141521099596496896"),
   Bytes("8388607e10"), Bytes("8388608e1"), Bytes("4503599627370495e22"),
   Bytes("4503599627370496e1"), Bytes("7e-10"), Bytes("7e-11"),
   Bytes("3e-22"), Bytes("3e-23"), Bytes("1e15"),
   Bytes("1000000000000001e22"), Bytes("1e-7")}

ZeroInputs ==
  {Bytes("-0"), Bytes("0e0"), Bytes("-0e-0"), Bytes("+0e+0"), Bytes("0e+01234567890123456789"), Bytes("-0.00e-01234567890123456789"),
   Bytes("0e291"), Bytes("-0e348"), Bytes("0.0"), Bytes("000"), Bytes("-.0"), Bytes("0."),
   Bytes(".0e5"), Bytes("-0e1"), Bytes("+0"), Bytes("00.00e00"), Bytes("0e-400000"), Bytes("-0.e9"),
   Bytes("0e+18446744073709551616")}

BoolInputs ==
  {Bytes("1"), Bytes("t"), Bytes("T"), Bytes("true"), Bytes("True"), Bytes("TRUE"),
   Bytes("false"), Bytes("0"), Bytes("f"), Bytes("F"), Bytes("False"), Bytes("FALSE"),
   Bytes("tRUE"), Bytes("truee"), Bytes("tru"), Bytes("yes"), Bytes("fALSE"), Bytes("2")}

\* Integers about 2^52, 2^53, 2^23 and 2^24.
ExactInputs ==
  {Bytes("4503599627370495"), Bytes("4503599627370496"), Bytes("-4503599627370497"),
   Bytes("9007199254740991"), Bytes("8388607"), Bytes("8388608"), Bytes("-8388609"),
   Bytes("16777215"), Bytes("16777216"), Bytes("00000000000000000000008388607"),
   Bytes("4503599627370495.00000"), Bytes("8388607e0"), Bytes("-8388607"),
   Bytes("2e37"), Bytes("1e-22"), Bytes("-1e-23"), Bytes("1e17"), Bytes("2e17"), Bytes("1e18"),
   Bytes("1e-10"), Bytes("1e-11"), Bytes("123e-22"), Bytes("1e22"), Bytes("1e10"), Bytes("1e11"),
   Bytes("1000000000000000e22"), Bytes("100000000000000e23"), Bytes("100000000000001e23"),
   Bytes("1000000e17"), Bytes("8388607e10"), Bytes("1000001e11"), Bytes("1.5e-9"),
   Bytes("4503599627370495e-22"), Bytes("4503599627370496e-22")}

IntegerInputs ==
  {Bytes("127"), Bytes("128"), Bytes("-128"), Bytes("-129"),
   Bytes("255"), Bytes("256"), Bytes("300x"), Bytes("0x1f"),
   Bytes("0X1F"), Bytes("017"), Bytes("08"), Bytes("-0x80"),
   Bytes("-0x81"), Bytes("0x"), Bytes("32767"), Bytes("32768"),
   Bytes("-32768"), Bytes("-32769"), Bytes("9223372036854775807"), Bytes("9223372036854775808"),
   Bytes("-9223372036854775808"), Bytes("-9223372036854775809"), Bytes("18446744073709551615"), Bytes("18446744073709551616"),
   Bytes("18446744073709551616x"), Bytes("999999999999999999"), Bytes("-99999999999999999"), Bytes("1234567890123456789"),
   Bytes("12345678901234567x"), Bytes("zz"), Bytes("7fffffff"), Bytes("+7f"),
   Bytes("-80"), Bytes("ff"), Bytes("100"), Bytes("-0"),
   Bytes("+0x0"), Bytes("000000000000000000001"), Bytes("-000000000000000000128"), Bytes("1_0")}

RangeInputs ==
  {Bytes("1.7976931348623157e308"), Bytes("1.7976931348623159e308"),
   Bytes("-1.7976931348623159e308"), Bytes("1.797693134862315808e308"),
   Bytes("1e309"), Bytes("-1e310"), Bytes("1e400000"),
   Bytes("-1e+18446744073709551616"), Bytes("5e-324"), Bytes("2e-324"),
   Bytes("-2e-324"), Bytes("3e-324"), Bytes("1e-350"), Bytes("-1e-400000"),
   Bytes("1e-18446744073709551616"), Bytes("3.4028236e38"), Bytes("-3.4028236e38"),
   Bytes("3.4028235678e38"), Bytes("1e-45"), Bytes("-7e-46"), Bytes("1e39"),
   Bytes("1.5"), Bytes("x"), Bytes("-inf"), Bytes("1e+"), Bytes("0"),
   Bytes("0.99999999999999999999"), Bytes("-2.2250738585072013e-308"),
   Bytes("2.2250738585072011e-308"), Bytes("1.1754943e-38"), Bytes("1.17549435e-38"),
   Bytes("2.2250738585072012e-308"), Bytes("9"), Bytes("0.3")}

Zeros(n) == [i \in 1..n |-> "0"]

Twos(n) == [i \in 1..n |-> "2"]

\* More digits than the decimal holds: after the point, and before it.
LongInputs ==
  {Bytes("1.00000000000000011102230246251565404236316680908203125") \o Zeros(DecimalCap) \o <<"1">>,
   Bytes("1.000000059604644775390625") \o Zeros(DecimalCap) \o <<"1">>,
   Bytes("2.") \o Twos(DecimalCap + 100) \o Bytes("e+1"),
   Bytes("0.") \o Zeros(DecimalCap) \o Bytes("1e") \o Itoba(DecimalCap + 1),
   Zeros(DecimalCap + 1),
   <<"-">> \o Zeros(DecimalCap) \o Bytes(".") \o Zeros(DecimalCap) \o Bytes("e-1"),
   <<"1">> \o Zeros(DecimalCap) \o Bytes("e-") \o Itoba(DecimalCap),
   <<"-", "1">> \o Zeros(DecimalCap) \o Bytes(".0e-") \o Itoba(DecimalCap),
   <<"1">> \o Zeros(DecimalCap + 400),
   <<"1">> \o Zeros(9999) \o Bytes("e-100000"),
   Bytes("0.") \o Zeros(9999) \o Bytes("1e100000"),
   Bytes("9007199254740993") \o Zeros(700) \o <<"1">> \o Zeros(DecimalCap - 716)
     \o Bytes("e-") \o Itoba(DecimalCap - 15),
   Bytes("1.5"), Bytes("-1e23"), Bytes("1e"), Bytes("nan"), Bytes("12345678901234567890123"),
   Bytes("0"), Bytes("127")}

ConcurrentInputs == {Bytes("1.5"), Bytes("1e23"), Bytes("1e")}

\* The bases and bit sizes the callers pass (1 and 65 are invalid).
Bases == {0, 1, 10, 16}

BitSizes == {0, 8, 64, 65}

(***************************************************************************)
(* The state: the package variable optimize, and the calls in progress,    *)
(* one per caller, each with its position and its local variables.  The    *)
(* callers, the byte slices they pass (inputs) and the pairs of base and   *)
(* bit size they pass (params) are the program's surroundings, and stay    *)
(* what they are.                                                          *)
(***************************************************************************)
MaxCalls == 2

Procs == 1..MaxCalls

VARIABLES optimize, calls, callers, inputs, params

vars == <<optimize, calls, callers, inputs, params>>

IdleCall ==
  [pc |-> "idle", op |-> "none", ba |-> <<>>, base |-> 0, bitSize |-> 0,
   opt |-> FALSE, rf |-> NoFloat, d |-> NewDecimal, val |-> U64Zero, err |-> nil,
   tier |-> "none", flag |-> FALSE, out |-> <<>>]

InitProgram ==
  /\ optimize = TRUE
  /\ calls = [p \in Procs |-> IdleCall]

Init ==
  /\ InitProgram
  /\ callers = {1}
  /\ inputs = ShortInputs \cup GrammarInputs \cup SpecialInputs \cup RoundingInputs
                \cup ZeroInputs \cup IntegerInputs \cup BoolInputs
                \cup ExactInputs
  /\ params = Bases \X BitSizes

InitRange ==
  /\ InitProgram
  /\ callers = {1}
  /\ inputs = RangeInputs
  /\ params = {<<10, 64>>}

InitLong ==
  /\ InitProgram
  /\ callers = {1}
  /\ inputs = LongInputs
  /\ params = {<<10, 64>>}

InitConcurrent ==
  /\ InitProgram
  /\ callers = Procs
  /\ inputs = ConcurrentInputs
  /\ params = {<<10, 64>>}

\* The float format of a call.
Flt(c) == IF c.bitSize = 32 THEN float32info ELSE float64info

\* The call returns f and err; ParseFloat returns float64(f).
Returns(c, f, err, tier) ==
  [c EXCEPT !.pc = "done",
            !.val = IF c.op = "ParseFloat" /\ c.bitSize = 32 THEN Float64Of32(f) ELSE f,
            !.err = err,
            !.tier = tier]

\* A caller that is in no call.
Idle(p) == p \in callers /\ calls[p].pc = "idle"

Enter(p, op, ba, base, bitSize) ==
  /\ calls' = [calls EXCEPT ![p] = [IdleCall EXCEPT !.pc = "special", !.op = op, !.ba = ba,
                                                    !.base = base, !.bitSize = bitSize]]
  /\ UNCHANGED <<optimize, callers, inputs, params>>

CallBatof32(p) == Idle(p) /\ \E ba \in inputs : Enter(p, "Batof32", ba, 0, 32)

CallBatof64(p) == Idle(p) /\ \E ba \in inputs : Enter(p, "Batof64", ba, 0, 64)

CallParseFloat(p) ==
  Idle(p) /\ \E ba \in inputs, bitSize \in {32, 64} : Enter(p, "ParseFloat", ba, 0, bitSize)

\* if val, ok := special(ba); ok { return val, nil }
AfterSpecial(c, sp) ==
  IF sp.ok
  THEN Returns(c, IF c.bitSize = 32 THEN Float32Of64(sp.f) ELSE sp.f, nil, "special")
  ELSE [c EXCEPT !.pc = "optimize"]

StepSpecial(p) ==
  /\ calls[p].pc = "special"
  /\ calls' = [calls EXCEPT ![p] = AfterSpecial(calls[p], special(calls[p].ba))]
  /\ UNCHANGED <<optimize, callers, inputs, params>>

\* A reading of the flag that also clears it.
StepOptimizeWrites(p) ==
  LET c == calls[p]
  IN  /\ c.pc = "optimize"
      /\ calls' = [calls EXCEPT ![p] =
           [c EXCEPT !.opt = optimize, !.pc = IF optimize THEN "readFloat" ELSE "set"]]
      /\ optimize' = FALSE
      /\ UNCHANGED <<callers, inputs, params>>

\* if optimize {
StepOptimize(p) ==
  LET c == calls[p]
  IN  /\ c.pc = "optimize"
      /\ calls' = [calls EXCEPT ![p] =
           [c EXCEPT !.opt = optimize, !.pc = IF optimize THEN "readFloat" ELSE "set"]]
      /\ UNCHANGED <<optimize, callers, inputs, params>>

\* A call that tries the exact path whatever readFloat says of the mantissa.
AfterReadFloatToExact(c, rf) ==
  [c EXCEPT !.rf = rf, !.pc = IF ~rf.ok THEN "set" ELSE "exact"]

\* mantissa, exp, neg, trunc, ok := readFloat(ba)
AfterReadFloat(c, rf) ==
  [c EXCEPT !.rf = rf,
            !.pc = IF ~rf.ok THEN "set" ELSE IF ~rf.trunc THEN "exact" ELSE "ext"]

StepReadFloat(p) ==
  /\ calls[p].pc = "readFloat"
  /\ calls' = [calls EXCEPT ![p] = AfterReadFloat(calls[p], readFloat(calls[p].ba))]
  /\ UNCHANGED <<optimize, callers, inputs, params>>

\* if f, ok := batof64exact(mantissa, exp, neg); ok { return f, nil }
AfterExact(c, r) ==
  IF r.ok THEN Returns(c, r.f, nil, "exact") ELSE [c EXCEPT !.pc = "ext"]

StepExact(p) ==
  LET c == calls[p]
  IN  /\ c.pc = "exact"
      /\ calls' = [calls EXCEPT ![p] =
           AfterExact(c, IF c.bitSize = 32
                         THEN batof32exact(c.rf.mantissa, c.rf.exp, c.rf.neg)
                         ELSE batof64exact(c.rf.mantissa, c.rf.exp, c.rf.neg))]
      /\ UNCHANGED <<optimize, callers, inputs, params>>

\* if ok := ext.AssignDecimal(...); ok { bits, ovf := ext.floatBits(...) ... return f, err }
\* return f, err with the bits r.bits, and a range error if r.overflow
ReturnsBits(c, r, tier) ==
  Returns(c, r.bits, IF r.overflow THEN rangeError(fnParseFloat, c.ba) ELSE nil, tier)

StepExt(p) ==
  LET c == calls[p]
  IN  /\ c.pc = "ext"
      /\ \E ok \in BOOLEAN :
           /\ ok => AssignDecimal(c.rf.mantissa, c.rf.exp, c.rf.neg, c.rf.trunc, Flt(c))
           /\ calls' = [calls EXCEPT ![p] =
                IF ok
                THEN ReturnsBits(c, extFloatBits(c.rf.mantissa, c.rf.exp, c.rf.neg, Flt(c)),
                                 "ext")
                ELSE [c EXCEPT !.pc = "set"]]
      /\ UNCHANGED <<optimize, callers, inputs, params>>

\* if !d.set(ba) { return 0, syntaxError(fnParseFloat, string(ba)) }
AfterSet(c, s) ==
  IF ~s.ok THEN Returns(c, U64Zero, syntaxError(fnParseFloat, c.ba), "decimal")
  ELSE [c EXCEPT !.d = s.dec, !.pc = "floatBits"]

StepSet(p) ==
  /\ calls[p].pc = "set"
  /\ calls' = [calls EXCEPT ![p] = AfterSet(calls[p], set(calls[p].ba))]
  /\ UNCHANGED <<optimize, callers, inputs, params>>

\* The call goes on once floatBits has returned r: a scaling loop that is
\* still running after MaxScaleSteps iterations has not.
FloatBitsReturns(p, c, r) ==
  /\ r.exit # "running"
  /\ calls' = [calls EXCEPT ![p] = ReturnsBits(c, r, "decimal")]

\* bits, ovf := d.floatBits(&float64info) ... return f, err
StepFloatBits(p) ==
  LET c == calls[p]
  IN  /\ c.pc = "floatBits"
      /\ FloatBitsReturns(p, c, floatBits(c.d, Flt(c)))
      /\ UNCHANGED <<optimize, callers, inputs, params>>

\* A call of an integer function: one step; r is what the function returns,
\* the value n of ParseUint or i of ParseInt and Batoi, and err.
EnterInteger(p, op, ba, base, bitSize, r) ==
  /\ calls' = [calls EXCEPT ![p] = [IdleCall EXCEPT !.pc = "done", !.op = op, !.ba = ba,
                                                    !.base = base, !.bitSize = bitSize,
                                                    !.val = IF "n" \in DOMAIN r THEN r.n ELSE r.i,
                                                    !.err = r.err]]
  /\ UNCHANGED <<optimize, callers, inputs, params>>

CallParseUint(p) ==
  Idle(p) /\ \E ba \in inputs, bb \in params :
    EnterInteger(p, "ParseUint", ba, bb[1], bb[2], ParseUint(ba, bb[1], bb[2]))

CallParseInt(p) ==
  Idle(p) /\ \E ba \in inputs, bb \in params :
    EnterInteger(p, "ParseInt", ba, bb[1], bb[2], ParseInt(ba, bb[1], bb[2]))

CallBatoi(p) ==
  Idle(p) /\ \E ba \in inputs : EnterInteger(p, "Batoi", ba, 10, 0, Batoi(ba))

\* A call of a boolean function: one step; flag is the boolean the call takes
\* or returns, out the bytes it returns.
EnterBool(p, op, ba, flag, out, err) ==
  /\ calls' = [calls EXCEPT ![p] = [IdleCall EXCEPT !.pc = "done", !.op = op, !.ba = ba,
                                                    !.flag = flag, !.out = out,
                                                    !.err = err]]
  /\ UNCHANGED <<optimize, callers, inputs, params>>

ParseBoolReturns(p, ba, r) == EnterBool(p, "ParseBool", ba, r.b, <<>>, r.err)

CallParseBool(p) == Idle(p) /\ \E ba \in inputs : ParseBoolReturns(p, ba, ParseBool(ba))

CallFormatBool(p) ==
  Idle(p) /\ \E b \in BOOLEAN : EnterBool(p, "FormatBool", <<>>, b, FormatBool(b), nil)

CallAppendBool(p) ==
  Idle(p) /\ \E dst \in inputs, b \in BOOLEAN :
    EnterBool(p, "AppendBool", dst, b, AppendBool(dst, b), nil)

\* The caller has the result; the call is over.
Return(p) ==
  /\ calls[p].pc = "done"
  /\ calls' = [calls EXCEPT ![p] = IdleCall]
  /\ UNCHANGED <<optimize, callers, inputs, params>>

\* SetOptimize(b), which the tests use to leave out the fast paths; they call
\* it between two parses, never during one.
SetOptimize(b) ==
  /\ \A p \in callers : calls[p].pc = "idle"
  /\ optimize' = b
  /\ UNCHANGED <<calls, callers, inputs, params>>

\* A step of a float call in progress.
Step(p) ==
  \/ StepSpecial(p)
  \/ StepOptimize(p)
  \/ StepReadFloat(p)
  \/ StepExact(p)
  \/ StepExt(p)
  \/ StepSet(p)
  \/ StepFloatBits(p)

Next ==
  \/ \E p \in Procs : CallBatof32(p)
  \/ \E p \in Procs : CallBatof64(p)
  \/ \E p \in Procs : CallParseFloat(p)
  \/ \E p \in Procs : Step(p)
  \/ \E p \in Procs : CallParseUint(p)
  \/ \E p \in Procs : CallParseInt(p)
  \/ \E p \in Procs : CallBatoi(p)
  \/ \E p \in Procs : CallParseBool(p)
  \/ \E p \in Procs : CallFormatBool(p)
  \/ \E p \in Procs : CallAppendBool(p)
  \/ \E p \in Procs : Return(p)
  \/ \E b \in BOOLEAN : SetOptimize(b)

Spec == Init /\ [][Next]_vars

SpecRange == InitRange /\ [][Next]_vars

SpecLong == InitLong /\ [][Next]_vars

\* The call of p can take a step: it is in progress, and at floatBits the
\* function returns.  This is ENABLED <<Step(p)>>_vars, written out.
CanStep(p) ==
  /\ calls[p].pc \notin {"idle", "done"}
  /\ calls[p].pc = "floatBits" => floatBits(calls[p].d, Flt(calls[p])).exit # "running"

\* A call in progress goes on (the goroutine that runs it is scheduled): weak
\* fairness of the steps of every call, for the calls of SpecRange.
StepsAreFair(p) ==
  /\ WF_vars(StepOptimize(p))
  /\ []<>~CanStep(p) \/ []<><<Step(p)>>_vars

SpecRangeFair == InitRange /\ [][Next]_vars /\ \A p \in Procs : StepsAreFair(p)

SpecConcurrent == InitConcurrent /\ [][Next]_vars

(***************************************************************************)
(* The texts of numbers as the specification words them, read without the  *)
(* scanners of the code: the yardstick of the properties below.            *)
(***************************************************************************)
\* ba with every upper-case letter turned into its lower-case letter.
Fold(ba) == [k \in 1..Len(ba) |-> ToLower(ba[k])]

PlusInfTexts == {Bytes("inf"), Bytes("+inf"), Bytes("infinity"), Bytes("+infinity")}

MinusInfTexts == {Bytes("-inf"), Bytes("-infinity")}

NaNTexts == {Bytes("nan")}

IsSpecialText(ba) == Fold(ba) \in PlusInfTexts \cup MinusInfTexts \cup NaNTexts

\* Where the parts of a decimal text are: the first byte after the optional
\* sign, the exponent marker (the first 'e' or 'E', Len(ba) + 1 if there is
\* none), the first decimal point before the marker (the marker if there is
\* none), the number of points before the marker, and the first byte after
\* the exponent's optional sign.
TextParts(ba) ==
  LET n == Len(ba)
      first == IF n >= 1 /\ ba[1] \in {"+", "-"} THEN 2 ELSE 1
      marks == {k \in 1..n : ba[k] \in {"e", "E"}}
      mark == IF marks = {} THEN n + 1 ELSE CHOOSE k \in marks : \A j \in marks : k <= j
      dots == {k \in first..(mark - 1) : ba[k] = "."}
      dot == IF dots = {} THEN mark ELSE CHOOSE k \in dots : \A j \in dots : k <= j
      esigned == mark + 1 <= n /\ ba[mark + 1] \in {"+", "-"}
  IN  [neg |-> n >= 1 /\ ba[1] = "-", first |-> first, mark |-> mark, dot |-> dot,
       ndots |-> Cardinality(dots), efirst |-> IF esigned THEN mark + 2 ELSE mark + 1,
       eneg |-> esigned /\ ba[mark + 1] = "-"]

\* The text with the parts t is  [sign] mantissa [('e'|'E') [sign] digits],
\* its mantissa being digits ['.' digits] with no run of digits empty if
\* strict, and else a run of digits with at most one '.' before, in or after it.
PartsMatch(ba, t, strict) ==
  /\ t.ndots <= 1
  /\ \A k \in t.first..(t.mark - 1) : k = t.dot \/ IsDigit(ba[k])
  /\ t.mark - t.first - t.ndots >= 1
  /\ strict => (t.dot > t.first /\ (t.ndots = 1 => t.mark > t.dot + 1))
  /\ t.mark <= Len(ba) =>
       (t.efirst <= Len(ba) /\ \A k \in t.efirst..Len(ba) : IsDigit(ba[k]))

\* The grammar of the specification.
MatchesGrammar(ba) == PartsMatch(ba, TextParts(ba), TRUE)

\* The grammar with a mantissa that may begin or end with its point.
MatchesLenientGrammar(ba) == PartsMatch(ba, TextParts(ba), FALSE)

\* The value of a run of digits ba[i..j]; the values from ExpCap on are told
\* apart no further: a text of fewer than ExpCap bytes with such an exponent
\* stands for zero, or for a number beyond every float.
ExpCap == 100000000

DigitsAdd(v, d) == IF v >= ExpCap THEN v ELSE v * 10 + d

RECURSIVE DigitsValue(_, _, _)
DigitsValue(ba, i, j) ==
  IF j < i THEN 0 ELSE DigitsAdd(DigitsValue(ba, i, j - 1), DigitVal(ba[j]))

\* The digits of the mantissa of a text with the parts t, without its point.
MantissaDigits(ba, t) ==
  [k \in 1..(t.mark - t.first - t.ndots) |->
     DigitVal(ba[IF t.first + k - 1 < t.dot THEN t.first + k - 1 ELSE t.first + k])]

\* The exponent of a text with the parts t.
ExponentValue(ba, t) ==
  IF t.mark > Len(ba) THEN 0
  ELSE IF t.eneg THEN 0 - DigitsValue(ba, t.efirst, Len(ba))
  ELSE DigitsValue(ba, t.efirst, Len(ba))

\* The number a matching text stands for: (-1)^neg * digs * 10^p.
PartsNumber(ba, t) ==
  [neg |-> t.neg, digs |-> MantissaDigits(ba, t),
   p |-> ExponentValue(ba, t) - (IF t.ndots = 0 THEN 0 ELSE t.mark - 1 - t.dot)]

TextNumber(ba) == PartsNumber(ba, TextParts(ba))

\* The float of format flt nearest to the number x, and whether x is beyond
\* the finite floats.
NearestTo(x, flt) == RoundNearestEven(x.neg, x.digs, x.p, flt)

Nearest(ba, flt) == NearestTo(TextNumber(ba), flt)

\* The mantissa of the number x has a digit that is not 0.
IsNonZero(x) == \E k \in 1..Len(x.digs) : x.digs[k] # 0

\* A call of Batof32 or Batof64 that has returned.
IsBatofDone(c) == c.pc = "done" /\ c.op \in {"Batof32", "Batof64"}

\* The kind of an error.
ErrKind(err) ==
  IF err = nil THEN "nil"
  ELSE IF err.Err = ErrSyntax THEN "Syntax"
  ELSE IF err.Err = ErrRange THEN "Range"
  ELSE "other"

(***************************************************************************)
(* C1.  Correct rounding.                                                  *)
(***************************************************************************)
\* The call c has returned the float r.bits, unless r is beyond the range.
ReturnedNearest(c, r) == ~r.overflow => c.val = r.bits

\* C1: a call of Batof64 or Batof32 on a text that matches the grammar, is no
\* special value and stands for a number in the range of the format returns
\* the float nearest to that number, halves going to the even neighbour.
C1_ReturnsNearestFloat ==
  \A p \in callers :
    (IsBatofDone(calls[p]) /\ ~IsSpecialText(calls[p].ba) /\ MatchesGrammar(calls[p].ba))
      => ReturnedNearest(calls[p], Nearest(calls[p].ba, Flt(calls[p])))

(***************************************************************************)
(* C2.  The fast paths and the decimal path.                               *)
(***************************************************************************)
\* What the decimal path returns for the call c: the bits and the error kind.
DecimalPathBits(r) == [val |-> r.bits, err |-> IF r.overflow THEN "Range" ELSE "nil"]

DecimalPathOf(s, flt) ==
  IF ~s.ok THEN [val |-> U64Zero, err |-> "Syntax"]
  ELSE DecimalPathBits(floatBits(s.dec, flt))

DecimalPath(ba, flt) == DecimalPathOf(set(ba), flt)

\* C2: a call of Batof64 or Batof32 that found optimize true returns the bits
\* and the kind of error that the same call returns when optimize is false,
\* which are those of the decimal path.
C2_OptimizeChangesNothing ==
  \A p \in callers :
    (IsBatofDone(calls[p]) /\ calls[p].opt)
      => [val |-> calls[p].val, err |-> ErrKind(calls[p].err)]
           = DecimalPath(calls[p].ba, Flt(calls[p]))

(***************************************************************************)
(* C3.  The grammar.                                                       *)
(***************************************************************************)
\* The call c, on a text that matches or not, has or has not a syntax error.
AcceptedIff(c, matches) == (ErrKind(c.err) # "Syntax") <=> matches

\* C3 as the specification states it: a call of Batof64 or Batof32 on a text
\* that is no special value returns without a syntax error exactly when the
\* text matches  [sign] digits ['.' digits] [('e'|'E') [sign] digits].
C3_AcceptsExactlyTheGrammar ==
  \A p \in callers :
    (IsBatofDone(calls[p]) /\ ~IsSpecialText(calls[p].ba))
      => AcceptedIff(calls[p], MatchesGrammar(calls[p].ba))

\* C3, amended: a call of Batof64 or Batof32 on a text that is no special
\* value returns without a syntax error exactly when the text matches
\* [sign] (digits ['.' [digits]] | '.' digits) [('e'|'E') [sign] digits].
C3_AcceptsExactlyTheLenientGrammar ==
  \A p \in callers :
    (IsBatofDone(calls[p]) /\ ~IsSpecialText(calls[p].ba))
      => AcceptedIff(calls[p], MatchesLenientGrammar(calls[p].ba))

\* A call has returned without an error on a text whose mantissa begins or
\* ends with its point.
C3_PointAtAnEndAccepted ==
  \E p \in callers :
    /\ IsBatofDone(calls[p])
    /\ calls[p].err = nil
    /\ MatchesLenientGrammar(calls[p].ba)
    /\ ~MatchesGrammar(calls[p].ba)

(***************************************************************************)
(* C4.  The errors of the float parsers.                                   *)
(***************************************************************************)
\* A call of Batof32, Batof64 or ParseFloat that has returned.
IsFloatDone(c) == c.pc = "done" /\ c.op \in {"Batof32", "Batof64", "ParseFloat"}

\* The format of the float a call returns.
ReturnFormat(c) == IF c.op = "Batof32" THEN float32info ELSE float64info

ErrorShape(c, flt) ==
  /\ c.err # nil =>
       /\ c.err.Func = "ParseFloat"
       /\ c.err.Num = c.ba
       /\ c.err.Err \in {ErrSyntax, ErrRange}
  /\ ErrKind(c.err) = "Syntax" => c.val = U64Zero
  /\ ErrKind(c.err) = "Range" => c.val = OverflowBits(c.ba[1] = "-", flt)
  /\ (FloatIsInf(c.val, flt) /\ ~IsSpecialText(c.ba)) => ErrKind(c.err) = "Range"

\* C4: an error that Batof64, Batof32 or ParseFloat returns has the Func
\* "ParseFloat", the input as Num, and ErrSyntax or ErrRange as Err; the value
\* is 0 with ErrSyntax, and the infinity with the sign of the input with
\* ErrRange; and an infinity returned for a text that is no special value
\* comes with ErrRange.
C4_ErrorsHaveTheirShape ==
  \A p \in callers : IsFloatDone(calls[p]) => ErrorShape(calls[p], ReturnFormat(calls[p]))

\* ParseFloat has returned -Inf and a range error for a 32-bit float.
C4_NegativeOverflowReturned ==
  \E p \in callers :
    /\ IsFloatDone(calls[p])
    /\ calls[p].op = "ParseFloat"
    /\ calls[p].bitSize = 32
    /\ ErrKind(calls[p].err) = "Range"
    /\ calls[p].val = Inf(TRUE)

(***************************************************************************)
(* C5.  Underflow.                                                         *)
(***************************************************************************)
\* The call c on a text for the number x, r being the float nearest to x.
UnderflowGivesZero(c, flt, x, r) ==
  (IsNonZero(x) /\ FloatIsZero(r.bits, flt)) => (c.val = r.bits /\ c.err = nil)

UnderflowOutcome(c, flt, x) == UnderflowGivesZero(c, flt, x, NearestTo(x, flt))

\* C5: a call of Batof64 or Batof32 on a text that matches the grammar and
\* stands for a number that is not zero and too small to round to the
\* smallest subnormal returns the zero with the sign of the text and no
\* error; and no call returns a finite float with a range error.
C5_UnderflowIsSignedZero ==
  \A p \in callers :
    IsBatofDone(calls[p]) =>
      /\ (ErrKind(calls[p].err) = "Range" => FloatIsInf(calls[p].val, Flt(calls[p])))
      /\ (~IsSpecialText(calls[p].ba) /\ MatchesGrammar(calls[p].ba))
           => UnderflowOutcome(calls[p], Flt(calls[p]), TextNumber(calls[p].ba))

(***************************************************************************)
(* C6.  The special values.                                                *)
(***************************************************************************)
\* The text low begins, after a sign if it has one, with an 'i' or an 'n'.
LooksSpecial(low) ==
  /\ Len(low) >= 1
  /\ \/ low[1] \in {"i", "n"}
     \/ low[1] \in {"+", "-"} /\ Len(low) >= 2 /\ low[2] \in {"i", "n"}

\* The call c on a text that is low in lower case.
SpecialOutcome(c, flt, low) ==
  /\ low \in PlusInfTexts => (c.val = OverflowBits(FALSE, flt) /\ c.err = nil)
  /\ low \in MinusInfTexts => (c.val = OverflowBits(TRUE, flt) /\ c.err = nil)
  /\ low \in NaNTexts => (FloatIsNaN(c.val, flt) /\ c.err = nil)
  /\ (LooksSpecial(low) /\ low \notin PlusInfTexts \cup MinusInfTexts \cup NaNTexts)
       => (ErrKind(c.err) = "Syntax" /\ c.val = U64Zero)

\* C6: Batof64 and Batof32 return +Inf for inf, +inf, infinity and +infinity,
\* -Inf for -inf and -infinity, and NaN for nan, in any mix of cases and with
\* no error; for every other text that begins, after a sign if it has one,
\* with an 'i' or an 'n' of either case they return 0 and a syntax error.
C6_SpecialValuesByWholeText ==
  \A p \in callers :
    IsBatofDone(calls[p]) => SpecialOutcome(calls[p], Flt(calls[p]), Fold(calls[p].ba))

\* A call has returned -Inf for a spelling with upper-case letters.
C6_MixedCaseInfinityReturned ==
  \E p \in callers :
    /\ IsBatofDone(calls[p])
    /\ Fold(calls[p].ba) \in MinusInfTexts
    /\ calls[p].ba \notin MinusInfTexts
    /\ calls[p].val = OverflowBits(TRUE, Flt(calls[p]))

(***************************************************************************)
(* C7.  Zero.                                                              *)
(***************************************************************************)
\* Every digit of the mantissa of the text with the parts t is 0.
MantissaIsZero(ba, t) == \A k \in t.first..(t.mark - 1) : ba[k] \in {"0", "."}

\* The text matches the grammar and its mantissa is zero.
IsZeroText(ba) == MatchesGrammar(ba) /\ MantissaIsZero(ba, TextParts(ba))

\* +0 or -0
SignedZero(neg, flt) == AssembleBits(U64Zero, flt.bias, neg, flt)

\* C7: a call of Batof64 or Batof32 on a text that matches the grammar and
\* has only zeros as mantissa digits returns -0 if the text begins with '-',
\* and else +0, with no error, whatever the exponent and whatever optimize.
C7_ZeroMantissaIsSignedZero ==
  \A p \in callers :
    (IsBatofDone(calls[p]) /\ IsZeroText(calls[p].ba))
      => /\ calls[p].val = SignedZero(calls[p].ba[1] = "-", Flt(calls[p]))
         /\ calls[p].err = nil

\* With optimize false a call has returned -0 for a zero with an exponent.
C7_NegativeZeroOnTheDecimalPath ==
  \E p \in callers :
    /\ IsBatofDone(calls[p])
    /\ ~calls[p].opt
    /\ calls[p].tier = "decimal"
    /\ IsZeroText(calls[p].ba)
    /\ calls[p].ba[1] = "-"
    /\ TextParts(calls[p].ba).mark <= Len(calls[p].ba)
    /\ calls[p].val = SignedZero(TRUE, Flt(calls[p]))

(***************************************************************************)
(* C8.  Calls do not disturb each other.                                   *)
(***************************************************************************)
\* The call c run alone from where it stands to its return: the set of the
\* calls as they may return (the extended path may decline).
AloneFloatBits(c) == ReturnsBits(c, floatBits(c.d, Flt(c)), "decimal")

AloneAfterSet(c) == IF c.pc = "done" THEN c ELSE AloneFloatBits(c)

AloneSet(c) == AloneAfterSet(AfterSet(c, set(c.ba)))

AloneExt(c) ==
  {AloneSet(c)} \cup
    IF AssignDecimal(c.rf.mantissa, c.rf.exp, c.rf.neg, c.rf.trunc, Flt(c))
    THEN {ReturnsBits(c, extFloatBits(c.rf.mantissa, c.rf.exp, c.rf.neg, Flt(c)), "ext")}
    ELSE {}

AloneAfterExact(c) == IF c.pc = "done" THEN {c} ELSE AloneExt(c)

AloneExact(c) ==
  AloneAfterExact(
    AfterExact(c, IF c.bitSize = 32
                  THEN batof32exact(c.rf.mantissa, c.rf.exp, c.rf.neg)
                  ELSE batof64exact(c.rf.mantissa, c.rf.exp, c.rf.neg)))

AloneAfterReadFloat(c) ==
  IF c.pc = "set" THEN {AloneSet(c)}
  ELSE IF c.pc = "exact" THEN AloneExact(c)
  ELSE AloneExt(c)

AloneOptimize(c, opt) ==
  IF opt
  THEN AloneAfterReadFloat(AfterReadFloat([c EXCEPT !.opt = TRUE], readFloat(c.ba)))
  ELSE {AloneSet([c EXCEPT !.opt = FALSE])}

AloneAfterSpecial(c, opt) == IF c.pc = "done" THEN {c} ELSE AloneOptimize(c, opt)

\* The call of op on ba that finds optimize = opt, run alone.
Alone(op, ba, bitSize, opt) ==
  AloneAfterSpecial(
    AfterSpecial([IdleCall EXCEPT !.pc = "special", !.op = op, !.ba = ba,
                                  !.bitSize = bitSize],
                 special(ba)),
    opt)

\* The call c has returned what some call of Alone returns.
ReturnedAsOneOf(c, rs) == \E r \in rs : r.val = c.val /\ r.err = c.err

ReturnsAsAlone ==
  \A p \in callers :
    IsBatofDone(calls[p])
      => ReturnedAsOneOf(calls[p],
           Alone(calls[p].op, calls[p].ba, calls[p].bitSize, calls[p].opt))

\* A step taken while a call is in progress leaves optimize as it is, and no
\* step changes the input or the arguments of a call in progress.
KeepsFlagAndInputs ==
  /\ (\E p \in callers : calls[p].pc \notin {"idle", "done"}) => optimize' = optimize
  /\ \A p \in callers :
       calls[p].pc \notin {"idle", "done"} =>
         /\ calls'[p].ba = calls[p].ba
         /\ calls'[p].op = calls[p].op
         /\ calls'[p].bitSize = calls[p].bitSize
  /\ inputs' = inputs

\* C8: a call of Batof64 or Batof32 does not write optimize and does not
\* change its input, and with calls of other callers interleaved in any order
\* it returns what it returns when it runs alone.
C8_CallsAreIndependent == []ReturnsAsAlone /\ [][KeepsFlagAndInputs]_vars

\* Two calls on different texts are in progress, one about to read the
\* flag and one past it.
C8_TwoCallsInProgress ==
  \E p, q \in callers :
    /\ p # q
    /\ calls[p].op \in {"Batof32", "Batof64"}
    /\ calls[q].op \in {"Batof32", "Batof64"}
    /\ calls[p].ba # calls[q].ba
    /\ calls[p].pc = "optimize"
    /\ calls[q].pc \in {"exact", "ext", "set", "floatBits"}

(***************************************************************************)
(* C9.  ParseInt.                                                          *)
(***************************************************************************)
\* The digit a byte stands for, 36 for a byte that is no digit in any base.
RadixDigit(ch) ==
  IF IsIn(ch, DigitChars) THEN IndexIn(ch, DigitChars) - 1
  ELSE IF IsIn(ch, LowerChars) THEN IndexIn(ch, LowerChars) + 9
  ELSE IF IsIn(ch, UpperChars) THEN IndexIn(ch, UpperChars) + 9
  ELSE 36

\* The parts of the text of an integer: its sign, its radix (with base 0 that
\* of its prefix: 16 after "0x", 8 after "0", else 10) and the index of its
\* first digit (the 0 of an octal text is a digit).
IntegerParts(ba, base) ==
  LET n == Len(ba)
      first == IF n >= 1 /\ ba[1] \in {"+", "-"} THEN 2 ELSE 1
      hex == base = 0 /\ n >= first + 1 /\ ba[first] = "0" /\ ba[first + 1] \in {"x", "X"}
      oct == base = 0 /\ ~hex /\ n >= first /\ ba[first] = "0"
  IN  [neg |-> n >= 1 /\ ba[1] = "-",
       radix |-> IF base # 0 THEN base ELSE IF hex THEN 16 ELSE IF oct THEN 8 ELSE 10,
       from |-> IF hex THEN first + 2 ELSE first]

\* An optional sign and then at least one digit, all digits of the radix.
IsIntegerText(ba, t) ==
  /\ t.from <= Len(ba)
  /\ \A k \in t.from..Len(ba) : RadixDigit(ba[k]) < t.radix

\* The digits of the text from its first digit that is not 0.
SignificantDigits(ba, t) ==
  LET nz == {k \in t.from..Len(ba) : ba[k] # "0"}
      start == IF nz = {} THEN Len(ba) + 1 ELSE CHOOSE k \in nz : \A j \in nz : k <= j
  IN  [k \in 1..(Len(ba) - start + 1) |-> RadixDigit(ba[start + k - 1])]

\* The digits of u in the radix, most significant first (none for 0).
RECURSIVE RadixDigitsOf(_, _)
RadixDigitsOf(u, radix) ==
  IF U64IsZero(u) THEN <<>>
  ELSE LET q == U64Div(u, radix)
       IN  Append(RadixDigitsOf(q, radix), U64Sub(u, U64MulAdd(q, radix, 0))[1])

\* a <= b for numbers given by their digits, without leading zeros.
DigitsLessEq(a, b) ==
  \/ Len(a) < Len(b)
  \/ /\ Len(a) = Len(b)
     /\ \/ a = b
        \/ LET k == CHOOSE i \in 1..Len(a) : a[i] # b[i] /\ \A j \in 1..(i - 1) : a[j] = b[j]
           IN  a[k] < b[k]

\* The number the first n of the digits ds stand for in the radix.
RECURSIVE RadixValue(_, _, _)
RadixValue(ds, n, radix) ==
  IF n = 0 THEN U64Zero ELSE U64MulAdd(RadixValue(ds, n - 1, radix), radix, ds[n])

\* The largest magnitude of an integer of the sign and the bits: 2^(bits-1)
\* for a negative one, 2^(bits-1) - 1 for the others.
MaxMagnitude(neg, bits) ==
  IF neg THEN U64Pow2(bits - 1) ELSE U64Sub(U64Pow2(bits - 1), U64(1))

\* n, or -n if neg, as an int64
Int64Signed(neg, n) == IF neg THEN Int64Neg(n) ELSE n

\* What the documentation promises of the call c of ParseInt on a text with
\* the parts t and the significant digits ds: wf says that the text is an
\* integer text, fits that it is one and its value is in the range.
IntegerOutcome(c, t, ds, bits, wf, fits) ==
  /\ (c.err = nil) <=> fits
  /\ fits => c.val = Int64Signed(t.neg, RadixValue(ds, Len(ds), t.radix))
  /\ ~wf => (c.val = U64Zero /\ ErrKind(c.err) = "Syntax")
  /\ (wf /\ ~fits) =>
       (c.val = Int64Signed(t.neg, MaxMagnitude(t.neg, bits)) /\ ErrKind(c.err) = "Range")
  /\ c.err # nil => (c.err.Func = "ParseInt" /\ c.err.Num = c.ba)

IntegerContractFor(c, t, ds, bits, wf) ==
  IntegerOutcome(c, t, ds, bits, wf,
    wf /\ DigitsLessEq(ds, RadixDigitsOf(MaxMagnitude(t.neg, bits), t.radix)))

IntegerContractOf(c, t, bits) ==
  IntegerContractFor(c, t, SignificantDigits(c.ba, t), bits, IsIntegerText(c.ba, t))

IntegerContract(c) ==
  IntegerContractOf(c, IntegerParts(c.ba, c.base), IF c.bitSize = 0 THEN IntSize ELSE c.bitSize)

\* A call of ParseInt with a valid base and a valid bit size that has returned.
IsParseIntDone(c) ==
  /\ c.pc = "done"
  /\ c.op = "ParseInt"
  /\ c.base \in {0} \cup (2..36)
  /\ c.bitSize \in 0..64

\* C9: ParseInt with a valid base and bit size returns the value of the text
\* and no error exactly when the text is an optional sign and then at least
\* one digit, all valid, and the value is in the range of the bit size; it
\* returns 0 and ErrSyntax when the text is empty or has an invalid digit,
\* and the bound of the range on the side of the sign and ErrRange when the
\* value is out of the range; every error has the Func "ParseInt" and the
\* whole input as Num.
C9_ParseIntKeepsItsContract ==
  \A p \in callers : IsParseIntDone(calls[p]) => IntegerContract(calls[p])

(***************************************************************************)
(* C10.  Batoi and ParseInt.                                               *)
(***************************************************************************)
\* The call c of Batoi has returned what ParseInt returned as r, but for Func.
SameButFunc(c, r) ==
  /\ c.val = r.i
  /\ (c.err = nil) <=> (r.err = nil)
  /\ r.err # nil => c.err = [r.err EXCEPT !.Func = "Batoi"]

\* C10: Batoi returns the value, the kind of error and the Num of
\* ParseInt(s, 10, 0), on its fast path and on its fallback alike; the Func of
\* its error is "Batoi".
C10_BatoiIsParseIntBase10 ==
  \A p \in callers :
    (calls[p].pc = "done" /\ calls[p].op = "Batoi")
      => SameButFunc(calls[p], ParseInt(calls[p].ba, 10, 0))

\* Batoi has returned a negative value on its fast path.
C10_NegativeOnFastPath ==
  \E p \in callers :
    /\ calls[p].pc = "done"
    /\ calls[p].op = "Batoi"
    /\ Len(calls[p].ba) \in 2..18
    /\ calls[p].ba[1] = "-"
    /\ calls[p].err = nil
    /\ calls[p].val # U64Zero

(***************************************************************************)
(* C11.  FormatBool.                                                       *)
(***************************************************************************)
\* The text of a boolean.
BoolText(b) == IF b THEN Bytes("true") ELSE Bytes("false")

\* C11: FormatBool(b) returns "true" for true and "false" for false, which
\* is what AppendBool appends to an empty destination, and ParseBool returns
\* b for it, with no error.
C11_FormatBoolGivesTheText ==
  \A p \in callers :
    (calls[p].pc = "done" /\ calls[p].op = "FormatBool")
      => /\ calls[p].out = BoolText(calls[p].flag)
         /\ calls[p].out = AppendBool(<<>>, calls[p].flag)
         /\ ParseBool(calls[p].out) = [b |-> calls[p].flag, err |-> nil]

(***************************************************************************)
(* C12.  The order of the tiers.                                           *)
(***************************************************************************)
\* What the exact path says of the scanned number of the call c.
ExactOf(c) ==
  IF c.bitSize = 32 THEN batof32exact(c.rf.mantissa, c.rf.exp, c.rf.neg)
  ELSE batof64exact(c.rf.mantissa, c.rf.exp, c.rf.neg)

\* A step that takes a call with optimize true from c to n.
TierStep(c, n) ==
  /\ c.pc = "readFloat" =>
       /\ n.pc \in {"exact", "ext", "set"}
       /\ n.pc = "exact" <=> (n.rf.ok /\ ~n.rf.trunc)
       /\ n.pc = "ext" <=> (n.rf.ok /\ n.rf.trunc)
       /\ n.pc = "set" <=> ~n.rf.ok
  /\ c.pc = "exact" =>
       /\ ~c.rf.trunc
       /\ \/ n.pc = "done" /\ n.tier = "exact"
          \/ n.pc = "ext"
       /\ n.pc = "done" <=> ExactOf(c).ok
  /\ c.pc = "ext" =>
       \/ n.pc = "done" /\ n.tier = "ext"
       \/ n.pc = "set"
  /\ c.pc = "set" =>
       \/ n.pc = "done" /\ n.tier = "decimal"
       \/ n.pc = "floatBits"
  /\ c.pc = "floatBits" => (n.pc = "done" /\ n.tier = "decimal")

TiersInOrder ==
  \A p \in callers :
    (calls[p].opt /\ calls[p].pc \in {"readFloat", "exact", "ext", "set", "floatBits"}
       /\ calls'[p] # calls[p])
      => TierStep(calls[p], calls'[p])

\* C12: a call of Batof64 or Batof32 that found optimize true tries the exact
\* path, then the extended path, then the decimal path, and returns from the
\* first that succeeds; it tries the exact path only if the mantissa is not
\* truncated, and the decimal path only if readFloat failed or the extended
\* path declined.
C12_TiersTriedInOrder == [][TiersInOrder]_vars

\* A call has returned from the decimal path after the exact path and the
\* extended path declined.
C12_AllThreeTiersTried ==
  \E p \in callers :
    /\ IsBatofDone(calls[p])
    /\ calls[p].opt
    /\ calls[p].tier = "decimal"
    /\ calls[p].rf.ok
    /\ ~calls[p].rf.trunc
    /\ ~ExactOf(calls[p]).ok

(***************************************************************************)
(* C13.  The exact path on integers.                                       *)
(***************************************************************************)
\* A call that has returned after readFloat gave it a mantissa that is not
\* truncated and is below the limit, with the exponent 0.
IsIntegerBelow(c, limit) ==
  /\ IsBatofDone(c)
  /\ c.opt
  /\ c.rf.ok
  /\ ~c.rf.trunc
  /\ c.rf.exp = 0
  /\ U64Less(c.rf.mantissa, limit)

\* The call has returned the mantissa's own value from the exact path.
ReturnedMantissa(c, flt) ==
  /\ c.tier = "exact"
  /\ c.err = nil
  /\ c.val = NearestTo([neg |-> c.rf.neg, digs |-> U64Digits(c.rf.mantissa), p |-> 0], flt).bits

\* C13 as the specification states it: the exact path returns the value of
\* every mantissa that is not truncated, has the exponent 0 and is at most
\* 2^53 for a float64, and at most 2^24 for a float32.
C13_ExactUpToAllMantissaBits ==
  \A p \in callers :
    IsIntegerBelow(calls[p], U64Add(U64Pow2(Flt(calls[p]).mantbits + 1), U64(1)))
      => ReturnedMantissa(calls[p], Flt(calls[p]))

\* C13, amended: the exact path returns the value of every mantissa that is
\* not truncated, has the exponent 0 and is below 2^52 for a float64, and
\* below 2^23 for a float32; from 2^52, and from 2^23, on it declines.
C13_ExactBelowTheStoredBits ==
  \A p \in callers :
    /\ IsIntegerBelow(calls[p], U64Pow2(Flt(calls[p]).mantbits))
         => ReturnedMantissa(calls[p], Flt(calls[p]))
    /\ (IsIntegerBelow(calls[p], U64Max)
          /\ ~U64Less(calls[p].rf.mantissa, U64Pow2(Flt(calls[p]).mantbits)))
         => calls[p].tier # "exact"

\* The exact path has returned 2^52 - 1 as a float64.
C13_LargestExactInteger ==
  \E p \in callers :
    /\ IsIntegerBelow(calls[p], U64Pow2(52))
    /\ calls[p].bitSize = 64
    /\ calls[p].rf.mantissa = U64Sub(U64Pow2(52), U64(1))
    /\ calls[p].tier = "exact"

(***************************************************************************)
(* C14.  When the exact path answers.                                      *)
(***************************************************************************)
\* The bounds of the exact path of a format: the last index of its table of
\* powers of ten, and the number of digits of its largest exact integer less 1.
ExactTable(flt) == IF flt = float32info THEN 10 ELSE 22

ExactDigits(flt) == IF flt = float32info THEN 7 ELSE 15

\* mantissa * 10^k <= 10^n
TimesPow10AtMost(mantissa, k, n) ==
  DigitsLessEq(U64Digits(mantissa) \o [i \in 1..k |-> 0], <<1>> \o [i \in 1..n |-> 0])

\* The mantissa and the exponent are ones for which the claim lets the exact
\* path of the format answer.
ExactMayAnswer(mantissa, exp, flt) ==
  /\ U64Less(mantissa, U64Pow2(flt.mantbits))
  /\ \/ exp = 0
     \/ /\ 0 < exp
        /\ exp <= ExactDigits(flt) + ExactTable(flt)
        /\ TimesPow10AtMost(mantissa,
                            IF exp > ExactTable(flt) THEN exp - ExactTable(flt) ELSE 0,
                            ExactDigits(flt))
     \/ 0 - ExactTable(flt) <= exp /\ exp < 0

\* The indexes at which the exact path reads its table for the exponent exp.
ExactLookups(exp, last) ==
  IF exp = 0 THEN {}
  ELSE IF exp > 0 /\ exp <= last + (IF last = 22 THEN 15 ELSE 7) THEN
    IF exp > last THEN {exp - last, last} ELSE {exp}
  ELSE IF exp < 0 /\ exp >= 0 - last THEN {0 - exp}
  ELSE {}

\* The call c, which readFloat gave a mantissa that is not truncated, has or
\* has not returned from the exact path.
ExactAnswersIff(c, flt) ==
  /\ c.tier = "exact" <=> ExactMayAnswer(c.rf.mantissa, c.rf.exp, flt)
  /\ ExactLookups(c.rf.exp, ExactTable(flt)) \subseteq 0..ExactTable(flt)
  /\ ExactLookups(c.rf.exp, ExactTable(flt)) \subseteq
       {i - 1 : i \in DOMAIN (IF flt = float32info THEN float32pow10 ELSE float64pow10)}

\* C14: batof64exact answers only for a mantissa below 2^52 with exp = 0, or
\* 0 < exp <= 37 and mantissa * 10^max(0, exp-22) <= 10^15, or
\* -22 <= exp < 0, and batof32exact only for a mantissa below 2^23 with the
\* bounds 17, 10, 10^7 and -10; they answer in all these cases, and read
\* their tables of powers of ten inside the tables.
C14_ExactAnswersInItsBounds ==
  \A p \in callers :
    (IsBatofDone(calls[p]) /\ calls[p].opt /\ calls[p].rf.ok /\ ~calls[p].rf.trunc)
      => ExactAnswersIff(calls[p], Flt(calls[p]))

\* The exact path has declined 2e37, whose mantissa times 10^15 is over 10^15.
C14_DeclinedOverTheIntegerBound ==
  \E p \in callers :
    /\ IsBatofDone(calls[p])
    /\ calls[p].opt
    /\ calls[p].bitSize = 64
    /\ calls[p].rf.ok
    /\ calls[p].rf.exp = 37
    /\ calls[p].rf.mantissa = U64(2)
    /\ calls[p].tier # "exact"

(***************************************************************************)
(* C15.  The digits the scanners keep and drop.                            *)
(***************************************************************************)
\* The digits ds from the first that is not 0 on.
Significant(ds) ==
  LET nz == {k \in 1..Len(ds) : ds[k] # 0}
  IN  IF nz = {} THEN <<>>
      ELSE SubSeq(ds, CHOOSE k \in nz : \A j \in nz : k <= j, Len(ds))

\* kept are the first cap of the digits sig, and trunc says that one of the
\* others is not 0.
KeptAndFlagged(sig, kept, trunc, cap) ==
  /\ kept = SubSeq(sig, 1, IF Len(sig) < cap THEN Len(sig) ELSE cap)
  /\ trunc <=> \E k \in (cap + 1)..Len(sig) : sig[k] # 0

\* The digits a, which do not begin with 0, with zeros after them up to n digits.
PadTo(a, n) == a \o [i \in 1..(n - Len(a)) |-> 0]

\* a * 10^e = b * 10^f, for digits a and b that do not begin with 0.
SameNumber(a, e, b, f) ==
  IF a = <<>> \/ b = <<>> THEN a = b
  ELSE /\ Len(a) + e = Len(b) + f
       /\ PadTo(a, Len(b)) = PadTo(b, Len(a))

\* a * 10^e < b * 10^f, for digits a and b that do not begin with 0.
SmallerNumber(a, e, b, f) ==
  IF b = <<>> THEN FALSE
  ELSE IF a = <<>> THEN TRUE
  ELSE \/ Len(a) + e < Len(b) + f
       \/ /\ Len(a) + e = Len(b) + f
          /\ PadTo(a, Len(b)) # PadTo(b, Len(a))
          /\ DigitsLessEq(PadTo(a, Len(b)), PadTo(b, Len(a)))

\* What readFloat gave (rf) for a text of the number x with the digits sig.
ReadFloatKeeps(rf, x, sig) ==
  /\ rf.ok
  /\ KeptAndFlagged(sig, U64Digits(rf.mantissa), rf.trunc, uint64digits)

ReadFloatValue(rf, x, sig) ==
  IF rf.trunc THEN SmallerNumber(U64Digits(rf.mantissa), rf.exp, sig, x.p)
  ELSE SameNumber(U64Digits(rf.mantissa), rf.exp, sig, x.p)

\* What decimal.set left (d) for a text with the digits sig.
SetKeeps(d, sig) == KeptAndFlagged(sig, d.d, d.trunc, DecimalCap)

\* The call c has read a text of the grammar with the fast scanner.
HasReadFloat(c) ==
  /\ c.pc \in {"exact", "ext", "set", "floatBits", "done"}
  /\ c.op \in {"Batof32", "Batof64"}
  /\ c.opt
  /\ MatchesLenientGrammar(c.ba)

\* The call c has read a text of the grammar with decimal.set.
HasSet(c) ==
  /\ c.pc \in {"floatBits", "done"}
  /\ c.op \in {"Batof32", "Batof64"}
  /\ c.tier \in {"none", "decimal"}
  /\ c.pc = "done" => c.err.Err # ErrSyntax
  /\ MatchesLenientGrammar(c.ba)

\* Both scanners keep the first digits and flag the others rightly.
ScannersKeepAndFlag ==
  \A p \in callers :
    /\ HasReadFloat(calls[p]) =>
         ReadFloatKeeps(calls[p].rf, TextNumber(calls[p].ba),
                        Significant(TextNumber(calls[p].ba).digs))
    /\ HasSet(calls[p]) =>
         SetKeeps(calls[p].d, Significant(TextNumber(calls[p].ba).digs))

\* The mantissa and exponent of readFloat are the number, or below it.
ReadFloatGivesTheValue ==
  \A p \in callers :
    HasReadFloat(calls[p]) =>
      ReadFloatValue(calls[p].rf, TextNumber(calls[p].ba),
                     Significant(TextNumber(calls[p].ba).digs))

\* C15: both scanners drop the significant digits beyond their capacity (19,
\* and that of the digit array) and do not reject them, trunc is set iff a
\* dropped digit is not 0, and readFloat's mantissa * 10^exp is the number
\* of the text if trunc is false and strictly below its magnitude if true.
C15_ScannersDropAndFlag == ScannersKeepAndFlag /\ ReadFloatGivesTheValue

(***************************************************************************)
(* C16.  The exponent accumulator.                                         *)
(***************************************************************************)
\* The value from which on the loops add no digit, and the largest value the
\* accumulator takes.
expClamp == 10000

ExponentLimit == (expClamp - 1) * 10 + 9

\* The exponent loop of readFloat and of decimal.set over the first n bytes
\* from index j of ba on: the accumulator e after them.
ReadAccumulator(ba, j, n) ==
  ReadExpLoop([ba |-> ba, i |-> j, e |-> 0, done |-> FALSE], n).e

SetAccumulator(ba, j, n) ==
  SetExpLoop([ba |-> ba, i |-> j, e |-> 0, done |-> FALSE], n).e

\* The accumulators of both loops over the digits ba[j..Len(ba)] stay what
\* they are from 10000 on, and stay within the limit.
AccumulatorsStop(ba, j) ==
  \A n \in 0..(Len(ba) - j) :
    /\ ReadAccumulator(ba, j, n) >= expClamp
         => ReadAccumulator(ba, j, n + 1) = ReadAccumulator(ba, j, n)
    /\ SetAccumulator(ba, j, n) >= expClamp
         => SetAccumulator(ba, j, n + 1) = SetAccumulator(ba, j, n)
    /\ ReadAccumulator(ba, j, n + 1) <= ExponentLimit
    /\ SetAccumulator(ba, j, n + 1) <= ExponentLimit

\* The exponent a scanner read from index i on is within the limit, and the
\* scanner went over every digit of it.
ExponentRead(ex, ba) ==
  /\ ex.ok
  /\ ex.i = Len(ba) + 1
  /\ Abs(ex.e) <= ExponentLimit

\* The call c has scanned a text of the grammar that has an exponent.
HasScannedExponent(c) ==
  /\ HasReadFloat(c) \/ HasSet(c)
  /\ TextParts(c.ba).mark <= Len(c.ba)

\* C16: in both scanners the exponent accumulator stays what it is once it
\* is 10000 or more, the digits after that are passed over, and the exponent
\* read is at most 99999 in magnitude whatever the number of its digits.
C16_ExponentAccumulatorStops ==
  \A p \in callers :
    HasScannedExponent(calls[p]) =>
      /\ AccumulatorsStop(calls[p].ba, TextParts(calls[p].ba).efirst)
      /\ ExponentRead(ReadExponent(calls[p].ba, TextParts(calls[p].ba).mark), calls[p].ba)
      /\ ExponentRead(SetExponent(calls[p].ba, TextParts(calls[p].ba).mark), calls[p].ba)

\* A text with an exponent of twenty digits has been scanned, and the
\* exponent read is the first five digits of it.
C16_TwentyDigitExponentRead ==
  \E p \in callers :
    /\ HasScannedExponent(calls[p])
    /\ calls[p].pc = "done"
    /\ Len(calls[p].ba) - TextParts(calls[p].ba).efirst + 1 = 20
    /\ ReadExponent(calls[p].ba, TextParts(calls[p].ba).mark).e = 0 - 18446
    /\ SetExponent(calls[p].ba, TextParts(calls[p].ba).mark).e = 0 - 18446

(***************************************************************************)
(* C17.  The clamp of the exponent and the result.                         *)
(***************************************************************************)
\* The exponent of the text with the parts t less the exponent the scanners
\* read from it: not 0 where the accumulator has passed over a digit.
ClampedBy(ba, t) == ExponentValue(ba, t) - SetExponent(ba, t.mark).e

\* What the decimal path returns for the decimal s.dec of the text with its
\* decimal point moved by the exponent digits that were passed over.
WithExactExponent(s, by, flt) == floatBits([s.dec EXCEPT !.dp = @ + by], flt)

\* The call c has returned the bits r.bits, with a range error iff r.overflow.
SameResult(c, r) ==
  /\ c.val = r.bits
  /\ c.err = IF r.overflow THEN rangeError(fnParseFloat, c.ba) ELSE nil

\* C17: the clamp of the exponent changes no result: Batof32 and Batof64
\* return, for a text of the grammar with a clamped exponent, the value and
\* the error they would return with the exponent accumulated exactly.
C17_ClampChangesNoResult ==
  \A p \in callers :
    (/\ IsBatofDone(calls[p])
     /\ MatchesLenientGrammar(calls[p].ba)
     /\ ClampedBy(calls[p].ba, TextParts(calls[p].ba)) # 0)
      => SameResult(calls[p],
                    WithExactExponent(set(calls[p].ba),
                                      ClampedBy(calls[p].ba, TextParts(calls[p].ba)),
                                      Flt(calls[p])))

(***************************************************************************)
(* C18, C19, C20.  decimal.floatBits.                                      *)
(***************************************************************************)
\* The fields of the bits of a float of the format flt.
ExpField(bits, flt) == U64Field(bits, flt.mantbits, flt.expbits)

MantField(bits, flt) == U64LowBits(bits, flt.mantbits)

SignBit(bits, flt) == U64Bit(bits, flt.mantbits + flt.expbits)

\* The call c has returned what floatBits gave for the decimal c.d.
HasFloatBits(c) ==
  /\ IsBatofDone(c)
  /\ c.tier = "decimal"
  /\ c.err.Err # ErrSyntax

\* floatBits has returned r for the decimal d without a Shift: the bits of an
\* infinity with the overflow flag if over, and else those of a zero without.
ShortCircuit(d, r, flt, over) ==
  /\ r.shifts = 0
  /\ r.overflow = over
  /\ ExpField(r.bits, flt) = IF over THEN 2 ^ flt.expbits - 1 ELSE 0
  /\ MantField(r.bits, flt) = U64Zero
  /\ SignBit(r.bits, flt) = d.neg

\* floatBits short-circuits from the decimal points over and under on.
ShortCircuitsFrom(d, r, flt, over, under) ==
  /\ d.dp >= over => ShortCircuit(d, r, flt, TRUE)
  /\ d.dp <= under => ShortCircuit(d, r, flt, FALSE)

\* The bounds of the code, and bounds of its own for the 32-bit format:
\* whatever they are, the decimal points 310 and -330 are beyond them.
ShortCircuitsPerFormat(d, r, flt) ==
  IF flt = float32info THEN ShortCircuitsFrom(d, r, flt, 310, 0 - 330)
  ELSE ShortCircuitsFrom(d, r, flt, 311, 0 - 331)

\* The bounds of the code for both formats; between them the decimal is
\* shifted.
ShortCircuitsAtTheSameBounds(d, r, flt) ==
  /\ ShortCircuitsFrom(d, r, flt, 311, 0 - 331)
  /\ (d.dp <= 310 /\ d.dp >= 0 - 330) => r.shifts > 0

\* C18 as stated: floatBits returns the bits of an infinity with the overflow
\* flag for dp > 310 and a signed zero without it for dp < -330, with no
\* Shift, and the 32-bit format has bounds of its own in place of these.
C18_ShortCircuitsPerFormat ==
  \A p \in callers :
    (HasFloatBits(calls[p]) /\ calls[p].d.d # <<>>)
      => ShortCircuitsPerFormat(calls[p].d, floatBits(calls[p].d, Flt(calls[p])),
                                Flt(calls[p]))

\* C18: floatBits returns, for a decimal that is not zero, the bits of an
\* infinity with the overflow flag for dp > 310 and a signed zero without it
\* for dp < -330, with no Shift, for the 32-bit format as for the 64-bit
\* one; a decimal with a dp from -330 to 310 is shifted, in both formats.
C18_ShortCircuitsAtTheSameBounds ==
  \A p \in callers :
    (HasFloatBits(calls[p]) /\ calls[p].d.d # <<>>)
      => ShortCircuitsAtTheSameBounds(calls[p].d, floatBits(calls[p].d, Flt(calls[p])),
                                      Flt(calls[p]))

\* Batof32 has returned for -1e310, a decimal with dp = 311, from the
\* decimal path.
C18_Float32OverTheBound ==
  \E p \in callers :
    /\ HasFloatBits(calls[p])
    /\ calls[p].bitSize = 32
    /\ calls[p].d.dp = 311
    /\ calls[p].d.neg
    /\ ErrKind(calls[p].err) = "Range"

\* floatBits has returned r for the decimal d: the overflow flag is set iff
\* the exponent field is all ones, the mantissa field is then 0, and the
\* sign bit is the sign of the decimal.
FlagFieldsAndSign(d, r, flt) ==
  /\ r.exit \in {"zero", "underflow", "overflow", "normal"}
  /\ r.overflow <=> ExpField(r.bits, flt) = 2 ^ flt.expbits - 1
  /\ r.overflow => MantField(r.bits, flt) = U64Zero
  /\ SignBit(r.bits, flt) = d.neg

\* C19: on every exit of floatBits the overflow flag is set iff the exponent
\* field of the bits is all ones, the mantissa field is then 0 (an infinity,
\* never a NaN), and the sign bit is the negative flag of the decimal, on
\* the zero, overflow and normal exits.
C19_OverflowFlagAndSign ==
  \A p \in callers :
    HasFloatBits(calls[p])
      => FlagFieldsAndSign(calls[p].d, floatBits(calls[p].d, Flt(calls[p])), Flt(calls[p]))

\* floatBits has returned -Inf after the scaling of a negative decimal.
C19_NegativeOverflowAfterScaling ==
  \E p \in callers :
    /\ HasFloatBits(calls[p])
    /\ calls[p].d.neg
    /\ calls[p].d.dp <= 310
    /\ calls[p].d.d # <<>>
    /\ ErrKind(calls[p].err) = "Range"
    /\ SignBit(calls[p].val, Flt(calls[p]))

\* floatBits has returned r without overflow: the exponent field is 0 iff
\* the mantissa r.mant lacks its leading bit, and else the exponent less the
\* bias, from 1 on; the mantissa is below 2^(mantbits+1), and its other bits
\* are the mantissa field.
ExponentFieldFits(r, flt) ==
  /\ ExpField(r.bits, flt) = 0 <=> ~U64Bit(r.mant, flt.mantbits)
  /\ U64Bit(r.mant, flt.mantbits) =>
       /\ ExpField(r.bits, flt) >= 1
       /\ ExpField(r.bits, flt) = r.exp - flt.bias
  /\ U64Less(r.mant, U64Pow2(flt.mantbits + 1))
  /\ MantField(r.bits, flt) = U64LowBits(r.mant, flt.mantbits)

\* C20: on every exit of floatBits without overflow the exponent field is 0
\* iff the mantissa lacks its implicit leading bit (a zero or a subnormal)
\* and else at least 1; the shift to the right below the least normal
\* exponent and the halving of the mantissa after a rounding carry leave
\* the float nearest to the number.
C20_ExponentFieldAndLeadingBit ==
  \A p \in callers :
    (HasFloatBits(calls[p]) /\ calls[p].err = nil)
      => /\ ExponentFieldFits(floatBits(calls[p].d, Flt(calls[p])), Flt(calls[p]))
         /\ MatchesGrammar(calls[p].ba)
              => ReturnedNearest(calls[p], Nearest(calls[p].ba, Flt(calls[p])))

\* floatBits has returned 1.0 for a decimal below 1: the rounding has carried.
C20_RoundingCarried ==
  \E p \in callers :
    /\ HasFloatBits(calls[p])
    /\ calls[p].err = nil
    /\ calls[p].d.dp = 0
    /\ Len(calls[p].d.d) = 20
    /\ ExpField(calls[p].val, Flt(calls[p])) = 0 - Flt(calls[p]).bias
    /\ MantField(calls[p].val, Flt(calls[p])) = U64Zero

\* floatBits has returned the least normal float for a decimal below it.
SubnormalRoundedToNormal ==
  \E p \in callers :
    /\ HasFloatBits(calls[p])
    /\ calls[p].d.neg
    /\ calls[p].d.dp = 0 - 307
    /\ ExpField(calls[p].val, Flt(calls[p])) = 1
    /\ MantField(calls[p].val, Flt(calls[p])) = U64Zero

(***************************************************************************)
(* C21.  Every call returns.                                               *)
(***************************************************************************)
\* The digit loops of decimal.set and readFloat as the scanners start them.
SetDigitsStart(ba) ==
  [ba |-> ba, i |-> ScanSign(ba).i, d |-> <<>>, dp |-> 0, trunc |-> FALSE,
   sawdot |-> FALSE, sawdigits |-> FALSE, fail |-> FALSE,
   done |-> (ScanSign(ba).i > Len(ba))]

ReadDigitsStart(ba) ==
  [ba |-> ba, i |-> ScanSign(ba).i, mantissa |-> U64Zero, nd |-> 0,
   ndMant |-> 0, dp |-> 0, trunc |-> FALSE,
   sawdot |-> FALSE, sawdigits |-> FALSE, fail |-> FALSE,
   done |-> (ScanSign(ba).i > Len(ba))]

ExpStart(ba, j) == [ba |-> ba, i |-> j, e |-> 0, done |-> FALSE]

\* From the state a of a loop an iteration leads to b: the index has moved
\* on by one byte, or the loop has ended where it was.
IndexAdvances(a, b) ==
  \/ a.done
  \/ b.i = a.i + 1
  \/ b.done /\ b.i = a.i

\* Every iteration of the four loops of the scanners over ba moves the index
\* on, and the loops have ended after as many iterations as there are bytes.
ScannersAdvance(ba, j) ==
  /\ \A n \in 0..Len(ba) :
       /\ IndexAdvances(SetDigitsLoop(SetDigitsStart(ba), n),
                        SetDigitsLoop(SetDigitsStart(ba), n + 1))
       /\ IndexAdvances(ReadDigitsLoop(ReadDigitsStart(ba), n),
                        ReadDigitsLoop(ReadDigitsStart(ba), n + 1))
  /\ SetDigitsLoop(SetDigitsStart(ba), Len(ba)).done
  /\ ReadDigitsLoop(ReadDigitsStart(ba), Len(ba)).done
  /\ j <= Len(ba) =>
       /\ \A n \in 0..(Len(ba) - j) :
            /\ IndexAdvances(SetExpLoop(ExpStart(ba, j), n),
                             SetExpLoop(ExpStart(ba, j), n + 1))
            /\ IndexAdvances(ReadExpLoop(ExpStart(ba, j), n),
                             ReadExpLoop(ExpStart(ba, j), n + 1))
       /\ SetExpLoop(ExpStart(ba, j), Len(ba) - j + 1).done
       /\ ReadExpLoop(ExpStart(ba, j), Len(ba) - j + 1).done

\* The decimal a is below the decimal b; neither is zero.
DecimalBelow(a, b) == SmallerNumber(a.d, a.dp - Len(a.d), b.d, b.dp - Len(b.d))

\* Every iteration of the first scaling loop from the state st on makes the
\* decimal smaller and moves its point no further from 0, and the loop ends
\* within n iterations.
RECURSIVE ScaleDownMoves(_, _)
RECURSIVE ScaleDownMovesTo(_, _, _)
ScaleDownMoves(st, n) ==
  IF st.done THEN TRUE
  ELSE IF n = 0 THEN FALSE
  ELSE ScaleDownMovesTo(st, ScaleDownStep(st), n)

ScaleDownMovesTo(st, nx, n) ==
  /\ DecimalBelow(nx.d, st.d)
  /\ nx.d.dp <= st.d.dp
  /\ ScaleDownMoves(nx, n - 1)

\* Every iteration of the second scaling loop from the state st on makes the
\* decimal larger, moves its point no further from 0 and leaves the decimal
\* below 1, and the loop ends within n iterations.
RECURSIVE ScaleUpMoves(_, _)
RECURSIVE ScaleUpMovesTo(_, _, _)
ScaleUpMoves(st, n) ==
  IF st.done THEN TRUE
  ELSE IF n = 0 THEN FALSE
  ELSE ScaleUpMovesTo(st, ScaleUpStep(st), n)

ScaleUpMovesTo(st, nx, n) ==
  /\ DecimalBelow(st.d, nx.d)
  /\ nx.d.dp >= st.d.dp
  /\ nx.d.dp <= 0
  /\ ScaleUpMoves(nx, n - 1)

\* The scaling loops of floatBits on the decimal d, from the states they
\* start in.
ScaleUpFrom(down) ==
  ScaleUpMoves([d |-> down.d, exp |-> down.exp, steps |-> down.steps,
                done |-> ~ScaleUpCond(down.d)], MaxScaleSteps)

ScalingEnds(d) ==
  (d.d # <<>> /\ d.dp <= 310 /\ d.dp >= 0 - 330) =>
    /\ ScaleDownMoves([d |-> d, exp |-> 0, steps |-> 0, done |-> ~(d.dp > 0)],
                      MaxScaleSteps)
    /\ ScaleUpFrom(ScaleDownLoop([d |-> d, exp |-> 0, steps |-> 0, done |-> ~(d.dp > 0)],
                                 MaxScaleSteps))

\* The loops of the call c move on and end.
LoopsEnd(c) ==
  /\ (c.op \in {"Batof32", "Batof64"} /\ c.pc # "idle")
       => ScannersAdvance(c.ba, TextParts(c.ba).efirst)
  /\ (c.pc = "floatBits" \/ HasFloatBits(c)) => ScalingEnds(c.d)

EveryLoopEnds == \A p \in callers : LoopsEnd(calls[p])

\* C21: every call of Batof64 and Batof32 returns: the loops of both
\* scanners move the index on by one byte in every iteration, the scaling
\* loops of floatBits start with a decimal point from -330 to 310 and bring
\* the decimal nearer to [0.5, 1) in every iteration, and a call that has
\* begun comes to its end.
C21_EveryCallReturns ==
  /\ []EveryLoopEnds
  /\ \A p \in Procs :
       (calls[p].pc = "special" /\ calls[p].op \in {"Batof32", "Batof64"})
         ~> (calls[p].pc = "done")

\* Batof64 has returned the least normal float for 2.2250738585072012e-308
\* from the decimal path.
C21_HangRegressionReturned ==
  \E p \in callers :
    /\ HasFloatBits(calls[p])
    /\ calls[p].ba = Bytes("2.2250738585072012e-308")
    /\ calls[p].bitSize = 64
    /\ calls[p].err = nil
    /\ ExpField(calls[p].val, float64info) = 1
    /\ MantField(calls[p].val, float64info) = U64Zero

(***************************************************************************)
(* C22.  The digits decimal.set stores.                                    *)
(***************************************************************************)
\* The decimal dec has no zero as its first digit, and no more digits than
\* the array holds.
NoLeadingZero(dec) ==
  /\ dec.d = <<>> \/ dec.d[1] \in 1..9
  /\ \A k \in 1..Len(dec.d) : dec.d[k] \in 0..9
  /\ Len(dec.d) <= DecimalCap

\* decimal.set has left s for a text of the grammar with the number x and the
\* digits sig: the digits it stores are those of sig, and where it stores
\* them all and reads the whole exponent the decimal is the number, the
\* zeros before sig having moved the decimal point only.
ZerosMoveThePoint(s, x, sig, by) ==
  /\ s.ok
  /\ s.dec.d = SubSeq(sig, 1, IF Len(sig) < DecimalCap THEN Len(sig) ELSE DecimalCap)
  /\ (Len(sig) <= DecimalCap /\ by = 0 /\ sig # <<>>)
       => SameNumber(s.dec.d, s.dec.dp - Len(s.dec.d), sig, x.p)

\* decimal.set has left s for the text ba.
SetStoresNoLeadingZero(s, ba) ==
  /\ NoLeadingZero(s.dec)
  /\ MatchesLenientGrammar(ba) =>
       ZerosMoveThePoint(s, TextNumber(ba), Significant(TextNumber(ba).digs),
                         ClampedBy(ba, TextParts(ba)))

\* C22: after decimal.set on a fresh decimal no leading zero is stored: there
\* is no digit, or the first digit is one of 1..9; the zeros before the
\* first other digit move the decimal point only, and there are never more
\* digits than the digit array holds.
C22_NoLeadingZeroStored ==
  \A p \in callers :
    (calls[p].op \in {"Batof32", "Batof64"} /\ calls[p].pc \in {"floatBits", "done"})
      => SetStoresNoLeadingZero(set(calls[p].ba), calls[p].ba)

\* decimal.set has stored the one digit 1 of a text of 800 zeros and a 1
\* after the point, and floatBits has returned for it.
C22_ZerosBeforeTheDigitPassed ==
  \E p \in callers :
    /\ HasFloatBits(calls[p])
    /\ Len(calls[p].ba) > DecimalCap
    /\ calls[p].ba[1] = "0"
    /\ calls[p].d.d = <<1>>
    /\ calls[p].d.dp = 1

(***************************************************************************)
(* C23.  The two scanners on the same text.                                *)
(***************************************************************************)
\* readFloat has given rf and decimal.set s for a text of the grammar with
\* the number x and the digits sig: where neither has dropped a digit that
\* is not 0, both stand for the number.
BothGiveTheNumber(rf, s, x, sig) ==
  (~rf.trunc /\ ~s.dec.trunc) =>
    /\ SameNumber(U64Digits(rf.mantissa), rf.exp, sig, x.p)
    /\ SameNumber(s.dec.d, s.dec.dp - Len(s.dec.d), sig, x.p)
    /\ SameNumber(U64Digits(rf.mantissa), rf.exp, s.dec.d, s.dec.dp - Len(s.dec.d))

\* readFloat has given rf and decimal.set s for the text ba.
ScannersAgreeOn(rf, s, ba) ==
  /\ rf.ok = s.ok
  /\ rf.neg = s.dec.neg
  /\ rf.ok => BothGiveTheNumber(rf, s, TextNumber(ba), Significant(TextNumber(ba).digs))

\* C23: the two scanners agree on every text: readFloat says ok iff
\* decimal.set does, they give the same sign, and where neither drops a
\* digit that is not 0 the mantissa * 10^exp of readFloat and the
\* 0.d1..dn * 10^dp of decimal.set are equal and are the number of the text,
\* for texts with more significant digits than the decimal holds as well.
C23_ScannersAgree ==
  \A p \in callers :
    (calls[p].op \in {"Batof32", "Batof64"} /\ calls[p].pc = "done")
      => ScannersAgreeOn(readFloat(calls[p].ba), set(calls[p].ba), calls[p].ba)

====
